---- MODULE Spec2Model ----
(***************************************************************************)
(* GOpti trip scheduling: the greedy scheduler (solve_stub), the optimal   *)
(* scheduler's routing model and tour translation (solve_ortools), the     *)
(* caching travel-cost / directions providers, and the polyline encoder.   *)
(*                                                                         *)
(* Time is in seconds.  Timestamps are absolute (seconds since midnight of *)
(* day 0); offsets are relative to the trip start.  Positions are         *)
(* latitudes in millionths of a degree on one meridian, so the great-      *)
(* circle distance between two positions is proportional to the difference *)
(* of their latitudes.  Distances are in millimetres, speeds in mm/s.      *)
(***************************************************************************)
EXTENDS Integers, Sequences, FiniteSets, TLC

(***************************************************************************)
(* Bounds and input domains                                                *)
(***************************************************************************)
\* largest number of session rows held by the data store
MaxRows == 3

EventIds == {"a", "b"}

\* (start_ts, end_ts) of the sessions the store may hold: one that starts
\* before the trip, one that spans its start, a short one, one that ends
\* after the trip end, one that starts after the trip end, one on the next day
SessionShapes ==
    { <<300, 1500>>, <<600, 1500>>, <<1500, 1800>>, <<1500, 3600>>,
      <<3300, 4200>>, <<87000, 87900>> }

\* requested dwell minutes of an event; 0 stands for "not supplied" (None)
DwellChoices == {0, 5, 20}

\* walkingSpeed of the request, in millimetres per second
Speeds == {1350}

StartTimes == {600}
EndTimes == {3000}

\* events.min_dwell_min of each event in the store; 0 stands for NULL
MinDwellMin(e) == IF e = "a" THEN 5 ELSE 0

\* venue latitude of each event: 300 s and 600 s of walking from latitude 0
VenuePos(e) == IF e = "a" THEN 3649 ELSE 7298
StartPositions == {0}

(***************************************************************************)
(* Helpers                                                                 *)
(***************************************************************************)
Max(a, b) == IF a >= b THEN a ELSE b
Min(a, b) == IF a <= b THEN a ELSE b
Abs(a) == IF a >= 0 THEN a ELSE -a

\* Python's `x or d` on Optional[int]: None and 0 both give d
Or(x, d) == IF x = 0 THEN d ELSE x

\* duplicate-free sequences over S
RECURSIVE Perms(_)
Perms(S) ==
    IF S = {} THEN { <<>> }
    ELSE UNION { { <<x>> \o p : p \in Perms(S \ {x}) } : x \in S }

RequestEventLists == UNION { Perms(T) : T \in (SUBSET EventIds) \ {{}} }

Range(s) == { s[i] : i \in 1..Len(s) }

(***************************************************************************)
(* util.py                                                                 *)
(***************************************************************************)
\* millimetres per millionth of a degree of latitude: 6371000 m * pi / 180 * 1e-6
MmPerMicroDeg == 111

\* haversine_m for two points on one meridian: R * |dphi|, in millimetres
haversine_m(a, b) == Abs(a - b) * MmPerMicroDeg

earliest_departure(arrive, dwell_sec) == arrive + dwell_sec

clamp_time_window(tw_start, tw_end) ==
    LET start == Max(0, tw_start)
    IN  [start |-> start, end |-> Max(start, tw_end)]

(***************************************************************************)
(* util.py: encode_polyline                                                *)
(***************************************************************************)
\* the characters chr(63) .. chr(126); chr(96), which cannot be written inside a
\* TLA+ string, is spelled out
CharTable ==
    << "?", "@", "A", "B", "C", "D", "E", "F", "G", "H", "I", "J", "K", "L", "M", "N",
       "O", "P", "Q", "R", "S", "T", "U", "V", "W", "X", "Y", "Z", "[", "\\", "]", "^",
       "_", "<backquote>", "a", "b", "c", "d", "e", "f", "g", "h", "i", "j", "k", "l", "m", "n",
       "o", "p", "q", "r", "s", "t", "u", "v", "w", "x", "y", "z", "{", "|", "}", "~" >>

\* chr(code) for 63 <= code <= 126
Chr(code) == CharTable[code - 62]

RECURSIVE JoinChars(_)
\* "".join(chr(c) for c in codes)
JoinChars(codes) == IF codes = <<>> THEN "" ELSE Chr(Head(codes)) \o JoinChars(Tail(codes))

\* int(round(x * 10 ** 5)) for a coordinate of x millionths of a degree:
\* Python rounds a tie to the even neighbour
ScaleAndRound(x) ==
    LET q == x \div 10
        r == x % 10
    IN  IF r < 5 THEN q
        ELSE IF r > 5 THEN q + 1
        ELSE IF q % 2 = 0 THEN q ELSE q + 1

RECURSIVE EncodeChunks(_)
\* lines 95-100: 5-bit groups, low group first, 0x20 set on all but the last
EncodeChunks(value) ==
    IF value >= 32 THEN <<(32 + (value % 32)) + 63>> \o EncodeChunks(value \div 32)
    ELSE <<value + 63>>

RECURSIVE EncodeChunksUnmarked(_)
EncodeChunksUnmarked(value) ==
    IF value >= 32 THEN <<(value % 32) + 63>> \o EncodeChunksUnmarked(value \div 32)
    ELSE <<value + 63>>

\* lines 91-94: value << 1, then ~value when negative
ZigZag(value) ==
    LET shifted == value * 2
    IN  IF shifted < 0 THEN -shifted - 1 ELSE shifted

_encode_value_unmarked(value) == EncodeChunksUnmarked(ZigZag(value))

_encode_value(value) == EncodeChunks(ZigZag(value))

\* lines 83-86: the characters appended for one point
EncodedPoint(pt, p_lat, p_lng) ==
    _encode_value(ScaleAndRound(pt[1]) - p_lat) \o _encode_value(ScaleAndRound(pt[2]) - p_lng)

RECURSIVE EncodeFrom(_, _, _)
EncodeFrom(pts, p_lat, p_lng) ==
    IF pts = <<>> THEN <<>>
    ELSE EncodedPoint(Head(pts), p_lat, p_lng)
           \o EncodeFrom(Tail(pts), ScaleAndRound(Head(pts)[1]), ScaleAndRound(Head(pts)[2]))

\* encode_polyline(points), lines 77-88
encode_polyline(pts) == JoinChars(EncodeFrom(pts, 0, 0))

(***************************************************************************)
(* travel.py: StraightLineTravel through TravelTimeWrapper                 *)
(***************************************************************************)
\* the 0.05 m/s floor of the speed
MinSpeed == 50

\* int(dist / max(walking_speed, 0.05))
StraightLineSeconds(origin, destination, speed) ==
    haversine_m(origin, destination) \div Max(speed, MinSpeed)

(***************************************************************************)
(* db.py                                                                   *)
(***************************************************************************)
DefaultDwellMin == 15
DaySeconds == 86400

DateOf(ts) == ts \div DaySeconds

build_dwell_map(events) ==
    [id \in { events[i].id : i \in 1..Len(events) } |->
        LET ev == CHOOSE e \in Range(events) : e.id = id
        IN  Or(ev.dwell_min, DefaultDwellMin)]

\* rows of the store, as the join of events, venues and event_sessions
AllRows ==
    { [event_id |-> e, start_ts |-> sh[1], end_ts |-> sh[2],
       min_dwell_min |-> MinDwellMin(e), lat |-> VenuePos(e)] :
         e \in EventIds, sh \in SessionShapes }

RowBefore(r, s) ==
    \/ r.start_ts < s.start_ts
    \/ r.start_ts = s.start_ts /\ r.end_ts < s.end_ts
    \/ r.start_ts = s.start_ts /\ r.end_ts = s.end_ts /\ r.event_id = "a" /\ s.event_id = "b"

RECURSIVE SortRows(_)
\* ORDER BY s.start_ts
SortRows(S) ==
    IF S = {} THEN <<>>
    ELSE LET m == CHOOSE r \in S : \A s \in S \ {r} : RowBefore(r, s)
         IN  <<m>> \o SortRows(S \ {m})

fetch_candidates(store, event_ids, target_date) ==
    SortRows({ r \in store : /\ r.event_id \in event_ids
                             /\ r.start_ts >= target_date * DaySeconds
                             /\ r.start_ts < (target_date + 1) * DaySeconds })

(***************************************************************************)
(* State                                                                   *)
(***************************************************************************)
VARIABLES
    req,          \* the SolveRequest being served
    store,        \* session rows of the data store
    pc,           \* solve_stub: "start", "loop", "done"
    rows,         \* solve_stub: rows returned by fetch_candidates
    ev_idx,       \* solve_stub: index in req.events of the next event of the for loop
    curr_time,    \* solve_stub: curr_time
    curr_pos,     \* solve_stub: curr_pos
    total_walk,   \* solve_stub: total_walk
    route,        \* solve_stub: route
    dropped,      \* solve_stub: dropped
    response,     \* solve_stub: the SolveResponse returned, <<>> before the return
    o_pc,         \* solve_ortools: "start", "model", "solved", "done"
    cfg,          \* solve_ortools: the SolverConfig in use
    o_rows,       \* solve_ortools: rows returned by fetch_candidates
    nodes,        \* solve_ortools: nodes (depot, session nodes, sink)
    travel_matrix,\* solve_ortools: travel_matrix
    transit,      \* solve_ortools: what the registered transit callback returns, per arc
    solution,     \* solve_ortools: the assignment returned by the routing backend
    o_response,   \* solve_ortools: the SolveResponse returned, <<>> before the return
    p_pc,         \* encode_polyline: "loop", "done"
    points,       \* encode_polyline: points, as <<lat, lng>> in millionths of a degree
    p_idx,        \* encode_polyline: index of the next point of the for loop
    prev_lat,     \* encode_polyline: prev_lat
    prev_lng,     \* encode_polyline: prev_lng
    output,       \* encode_polyline: output, as character codes
    encoded,      \* encode_polyline: the string returned, "" before the return
    clock,        \* now(), in seconds
    ttl,          \* ttl_minutes of the two cache repositories
    matrix_cache, \* rows of the matrix_cache table
    directions_cache, \* rows of the directions_cache table
    lookups,       \* the lookups made through the caching providers, oldest first
    d_tws,  \* summarise_drop_reason: the windows of the group, in candidate order
    d_horizon,  \* summarise_drop_reason: horizon
    d_calls,  \* summarise_drop_reason: the orders of the windows it was called with
    d_seen,  \* summarise_drop_reason: the results it returned
    m_pc,  \* solve: "start", "stub", "done"
    m_env,  \* USE_ORTOOLS and HAS_ORTOOLS of the process
    m_ort,  \* solve: how the call of solve_ortools ended, "not_called" before it
    m_status,  \* solve: HTTP status of the reply, 0 before it
    m_response,  \* solve: the SolveResponse delivered, <<>> before it
    workers,  \* concurrent cost lookups: position and locals of each caller
    writes,  \* concurrent cost lookups: the (key, value) pairs stored so far
    raw,  \* SolveRequest(...): the arguments of the constructor
    v_pc,  \* SolveRequest(...): "construct", "rejected", "accepted"
    v_error,  \* SolveRequest(...): the fields named by the ValidationError raised
    dbg,  \* ortools_solver: the module global _LAST_DEBUG
    conf,  \* the SolverConfig object a caller passes to several calls of solve_ortools
    calls  \* solve_ortools: position and locals of each concurrent call

reqVars == <<req, store>>
stubVars == <<pc, rows, ev_idx, curr_time, curr_pos, total_walk, route, dropped, response>>
ortVars == <<o_pc, cfg, o_rows, nodes, travel_matrix, transit, solution, o_response>>
polyVars == <<p_pc, points, p_idx, prev_lat, prev_lng, output, encoded>>
cacheVars == <<clock, ttl, matrix_cache, directions_cache, lookups>>
dropVars == <<d_tws, d_horizon, d_calls, d_seen>>
mainVars == <<m_pc, m_env, m_ort, m_status, m_response>>
concVars == <<workers, writes>>
valVars == <<raw, v_pc, v_error>>
sharedVars == <<dbg, conf, calls>>
vars == <<reqVars, stubVars, ortVars, polyVars, cacheVars, dropVars, mainVars, concVars, valVars, sharedVars>>
notStubVars == <<ortVars, polyVars, cacheVars, dropVars, mainVars, concVars, valVars, sharedVars>>
notOrtVars == <<stubVars, polyVars, cacheVars, dropVars, mainVars, concVars, valVars, sharedVars>>
notPolyVars == <<reqVars, stubVars, ortVars, cacheVars, dropVars, mainVars, concVars, valVars, sharedVars>>
notCacheVars == <<reqVars, stubVars, ortVars, polyVars, dropVars, mainVars, concVars, valVars, sharedVars>>
notDropVars == <<reqVars, stubVars, ortVars, polyVars, cacheVars, mainVars, concVars, valVars, sharedVars>>
notMainVars == <<stubVars, ortVars, polyVars, cacheVars, dropVars, concVars, valVars, sharedVars>>
notValVars == <<polyVars, cacheVars, dropVars, mainVars, concVars, sharedVars>>

(***************************************************************************)
(* schemas.py: valid requests                                              *)
(***************************************************************************)
SolveEvents(ids) ==
    { evs \in [1..Len(ids) -> [id : EventIds, dwell_min : DwellChoices]] :
        \A i \in 1..Len(ids) : evs[i].id = ids[i] }

Requests ==
    UNION { [start : [lat : StartPositions, time : StartTimes],
             endTime : EndTimes,
             events : SolveEvents(ids),
             walkingSpeed : Speeds,
             compressDwellToMin : BOOLEAN] : ids \in RequestEventLists }

validate_end_unchecked(v, start) == TRUE

\* lines 28-33: TRUE when the validator returns, FALSE when it raises
validate_end_after_start(v, start) == v > start.time

validate_events_nonempty(v) == Len(v) >= 1

\* lines 35-42: TRUE when the validator returns, FALSE when it raises
validate_events(v) ==
    /\ Len(v) >= 1
    /\ \A i, j \in 1..Len(v) : v[i].id = v[j].id => i = j

ValidRequest(r) ==
    /\ validate_end_after_start(r.endTime, r.start)
    /\ validate_events(r.events)

Stores == { S \in SUBSET AllRows : Cardinality(S) <= MaxRows }

ReqInit ==
    /\ req \in { r \in Requests : ValidRequest(r) }
    /\ store \in Stores

(***************************************************************************)
(* stub_solver.py: solve_stub                                              *)
(***************************************************************************)
\* _make_travel_provider with provider = None: straight line at the request's speed
StubTravelSeconds(r, origin, destination) ==
    StraightLineSeconds(origin, destination, r.walkingSpeed)

RECURSIVE InsertByStart(_, _)
InsertByStart(sorted, r) ==
    IF sorted = <<>> THEN <<r>>
    ELSE IF r.start_ts < Head(sorted).start_ts THEN <<r>> \o sorted
    ELSE <<Head(sorted)>> \o InsertByStart(Tail(sorted), r)

RECURSIVE SortByStart(_)
\* list.sort(key = start_ts): stable
SortByStart(s) ==
    IF s = <<>> THEN <<>>
    ELSE InsertByStart(SortByStart(SubSeq(s, 1, Len(s) - 1)), s[Len(s)])

sessions_by_event(rws, id) ==
    SortByStart(SelectSeq(rws, LAMBDA r : r.event_id = id))

event_min_map_as_stored(rws, id) ==
    LET mine == SelectSeq(rws, LAMBDA r : r.event_id = id)
    IN  IF mine = <<>> THEN DefaultDwellMin ELSE mine[Len(mine)].min_dwell_min

\* event_min_map.get(id, 15), each row setting int(min_dwell_min or 15)
event_min_map(rws, id) ==
    LET mine == SelectSeq(rws, LAMBDA r : r.event_id = id)
    IN  IF mine = <<>> THEN DefaultDwellMin
        ELSE Or(mine[Len(mine)].min_dwell_min, DefaultDwellMin)

\* dwell_map.get(id): 0 when the id is not in the map
DwellGet(dmap, id) == IF id \in DOMAIN dmap THEN dmap[id] ELSE 0

StubDwellSecRequestedOnly(r, rws, id) ==
    Or(DwellGet(build_dwell_map(r.events), id), DefaultDwellMin) * 60

\* lines 70-78
StubDwellSec(r, rws, id) ==
    LET requested == DwellGet(build_dwell_map(r.events), id)
        event_min == event_min_map(rws, id)
        picked_min == IF requested = 0 THEN event_min ELSE Max(requested, event_min)
        dwell_minutes == IF r.compressDwellToMin THEN event_min ELSE picked_min
    IN  dwell_minutes * 60

StubArrivalWithoutWaiting(now, walk_sec, sess) == now + walk_sec

StubArrival(now, walk_sec, sess) == Max(now + walk_sec, sess.start_ts)

StubAttempt(r, now, pos, sess, dwell_sec) ==
    LET walk_sec == StubTravelSeconds(r, pos, sess.lat)
        arrival == StubArrival(now, walk_sec, sess)
    IN  [sessionStart |-> sess.start_ts, sessionEnd |-> sess.end_ts,
         walkSec |-> walk_sec, arrival |-> arrival,
         depart |-> earliest_departure(arrival, dwell_sec)]

StubAcceptsIgnoringTripEnd(depart, sess_end, end_dt) == depart <= sess_end

StubAccepts(depart, sess_end, end_dt) == depart <= sess_end /\ depart <= end_dt

StubPickedLatest(r, now, pos, sess, dwell_sec) ==
    LET ok == { i \in 1..Len(sess) :
                  StubAccepts(StubAttempt(r, now, pos, sess[i], dwell_sec).depart,
                              sess[i].end_ts, r.endTime) }
    IN  IF ok = {} THEN 0 ELSE CHOOSE i \in ok : \A j \in ok : i >= j

\* index of the session the inner loop breaks on, 0 when it runs to the end
StubPicked(r, now, pos, sess, dwell_sec) ==
    LET ok == { i \in 1..Len(sess) :
                  StubAccepts(StubAttempt(r, now, pos, sess[i], dwell_sec).depart,
                              sess[i].end_ts, r.endTime) }
    IN  IF ok = {} THEN 0 ELSE CHOOSE i \in ok : \A j \in ok : i <= j

StubTimePastLastAttempt(now, attempts) ==
    IF attempts = <<>> THEN now ELSE attempts[Len(attempts)].arrival

\* lines 122-133: the drop branch assigns nothing to curr_time
StubTimeAfterDrop(now, attempts) == now

StubRouteReplaceLast(rt, stop) ==
    IF rt = <<>> THEN <<stop>> ELSE [rt EXCEPT ![Len(rt)] = stop]

\* lines 100-119: route.append(StopOut(...))
StubRouteAppend(rt, stop) == Append(rt, stop)

StubEventAtReversed(r, i) == r.events[Len(r.events) + 1 - i]

\* line 67: `for ev in req.events`, the event of the i-th iteration
StubEventAt(r, i) == r.events[i]

StubMetrics(rt, dr, walk) ==
    [visited |-> Len(rt), dropped |-> Len(dr), totalWalkSec |-> walk, solver |-> "stub"]

StubInit ==
    /\ pc = "start"
    /\ rows = <<>>
    /\ ev_idx = 0
    /\ curr_time = 0
    /\ curr_pos = 0
    /\ total_walk = 0
    /\ route = <<>>
    /\ dropped = <<>>
    /\ response = <<>>

\* lines 31-44: no candidate rows
StubNoRows ==
    /\ pc = "start"
    /\ LET fetched == fetch_candidates(store, { req.events[i].id : i \in 1..Len(req.events) },
                                       DateOf(req.start.time))
       IN  /\ fetched = <<>>
           /\ rows' = fetched
           /\ response' =
                 [route |-> <<>>,
                  dropped |-> [i \in 1..Len(req.events) |->
                                 [eventId |-> req.events[i].id, reason |-> "no_sessions_on_date",
                                  sessionsConsidered |-> 0, attempts |-> <<>>]],
                  metrics |-> [visited |-> 0, dropped |-> Len(req.events),
                               totalWalkSec |-> 0, solver |-> "stub"]]
    /\ pc' = "done"
    /\ UNCHANGED <<reqVars, notStubVars, ev_idx, curr_time, curr_pos, total_walk, route, dropped>>

\* lines 31-65: rows fetched, loop state initialised
StubFetch ==
    /\ pc = "start"
    /\ LET fetched == fetch_candidates(store, { req.events[i].id : i \in 1..Len(req.events) },
                                       DateOf(req.start.time))
       IN  /\ fetched # <<>>
           /\ rows' = fetched
    /\ curr_time' = req.start.time
    /\ curr_pos' = req.start.lat
    /\ total_walk' = 0
    /\ route' = <<>>
    /\ dropped' = <<>>
    /\ ev_idx' = 1
    /\ pc' = "loop"
    /\ UNCHANGED <<reqVars, notStubVars, response>>

\* lines 67-133: one iteration of `for ev in req.events`
StubEvent ==
    /\ pc = "loop"
    /\ ev_idx <= Len(req.events)
    /\ LET ev == StubEventAt(req, ev_idx)
           dwell_sec == StubDwellSec(req, rows, ev.id)
           sess == sessions_by_event(rows, ev.id)
           k == StubPicked(req, curr_time, curr_pos, sess, dwell_sec)
           tried == IF k = 0 THEN Len(sess) ELSE k
           attempts == [i \in 1..tried |->
                          StubAttempt(req, curr_time, curr_pos, sess[i], dwell_sec)]
       IN  IF k # 0
           THEN /\ total_walk' = total_walk + attempts[k].walkSec
                /\ route' = StubRouteAppend(route,
                       [eventId |-> ev.id,
                        sessionStart |-> sess[k].start_ts,
                        sessionEnd |-> sess[k].end_ts,
                        arrive |-> attempts[k].arrival,
                        depart |-> attempts[k].depart,
                        dwellSec |-> dwell_sec,
                        travelSecFromPrev |-> attempts[k].walkSec,
                        lat |-> sess[k].lat])
                /\ curr_time' = attempts[k].depart
                /\ curr_pos' = sess[k].lat
                /\ UNCHANGED dropped
           ELSE /\ dropped' = Append(dropped,
                       [eventId |-> ev.id,
                        reason |-> IF attempts = <<>> THEN "no_sessions_for_event"
                                   ELSE "no_feasible_session_within_windows",
                        sessionsConsidered |-> Len(attempts),
                        attempts |-> attempts])
                /\ curr_time' = StubTimeAfterDrop(curr_time, attempts)
                /\ UNCHANGED <<total_walk, route, curr_pos>>
    /\ ev_idx' = ev_idx + 1
    /\ UNCHANGED <<reqVars, notStubVars, pc, rows, response>>

\* lines 135-141
StubReturn ==
    /\ pc = "loop"
    /\ ev_idx > Len(req.events)
    /\ response' = [route |-> route, dropped |-> dropped,
                    metrics |-> StubMetrics(route, dropped, total_walk)]
    /\ pc' = "done"
    /\ UNCHANGED <<reqVars, notStubVars, rows, ev_idx, curr_time, curr_pos, total_walk, route, dropped>>

StubNext == StubNoRows \/ StubFetch \/ StubEvent \/ StubReturn

(***************************************************************************)
(* util.py: summarise_drop_reason                                          *)
(***************************************************************************)
summarise_first_window_only(event_id, tws, horizon) ==
    IF tws = <<>>
    THEN [eventId |-> event_id, reason |-> "no_sessions_for_date", sessionsConsidered |-> 0]
    ELSE IF tws[1].end - tws[1].start <= 0
    THEN [eventId |-> event_id, reason |-> "time_window_conflict",
          sessionsConsidered |-> Len(tws)]
    ELSE IF tws[1].start >= horizon
    THEN [eventId |-> event_id, reason |-> "beyond_trip_horizon",
          sessionsConsidered |-> Len(tws)]
    ELSE [eventId |-> event_id, reason |-> "dropped_by_solver",
          sessionsConsidered |-> Len(tws)]

summarise_horizon_first(event_id, tws, horizon) ==
    IF tws = <<>>
    THEN [eventId |-> event_id, reason |-> "no_sessions_for_date", sessionsConsidered |-> 0]
    ELSE IF \A i \in 1..Len(tws) : tws[i].start >= horizon
    THEN [eventId |-> event_id, reason |-> "beyond_trip_horizon",
          sessionsConsidered |-> Len(tws)]
    ELSE IF \A i \in 1..Len(tws) : tws[i].end - tws[i].start <= 0
    THEN [eventId |-> event_id, reason |-> "time_window_conflict",
          sessionsConsidered |-> Len(tws)]
    ELSE [eventId |-> event_id, reason |-> "dropped_by_solver",
          sessionsConsidered |-> Len(tws)]

\* lines 65-74
summarise_drop_reason(event_id, tws, horizon) ==
    IF tws = <<>>
    THEN [eventId |-> event_id, reason |-> "no_sessions_for_date", sessionsConsidered |-> 0]
    ELSE IF \A i \in 1..Len(tws) : tws[i].end - tws[i].start <= 0
    THEN [eventId |-> event_id, reason |-> "time_window_conflict",
          sessionsConsidered |-> Len(tws)]
    ELSE IF \A i \in 1..Len(tws) : tws[i].start >= horizon
    THEN [eventId |-> event_id, reason |-> "beyond_trip_horizon",
          sessionsConsidered |-> Len(tws)]
    ELSE [eventId |-> event_id, reason |-> "dropped_by_solver",
          sessionsConsidered |-> Len(tws)]

\* largest number of windows of a group handed to summarise_drop_reason
MaxWindows == 2

\* windows handed to it: empty, collapsed, open, at and beyond the horizon
DropWindows == [start : {0, 900, 2400, 2700}, end : {0, 900, 2400, 2700}]
DropHorizons == {2400}

\* the orders in which n windows can be listed
Orders(n) == Perms(1..n)

\* the list tws in the order given by a permutation of its indices
Reordered(tws, order) == [i \in 1..Len(tws) |-> tws[order[i]]]

DropInit ==
    /\ d_tws \in UNION { [1..n -> DropWindows] : n \in 0..MaxWindows }
    /\ d_horizon \in DropHorizons
    /\ d_calls = {}
    /\ d_seen = {}

DropIdle ==
    /\ d_tws = <<>>
    /\ d_horizon = 0
    /\ d_calls = {}
    /\ d_seen = {}

\* summarise_drop_reason(event_id, tws, horizon) with the group's windows in one order
SummariseCall(order) ==
    /\ order \notin d_calls
    /\ d_calls' = d_calls \cup {order}
    /\ d_seen' = d_seen \cup { summarise_drop_reason("a", Reordered(d_tws, order), d_horizon) }
    /\ UNCHANGED <<notDropVars, d_tws, d_horizon>>

DropNext == \E order \in Orders(Len(d_tws)) : SummariseCall(order)

(***************************************************************************)
(* ortools_solver.py: solve_ortools                                        *)
(***************************************************************************)
\* SolverConfig.slack_max
DefaultSlackMax == 900
\* floor of the default drop penalty
MinDropPenalty == 3000

\* cumulative-time values the backend's assignment is drawn from
CumulGrid == {0, 300, 600, 900, 1200, 1500, 1800, 2100, 2400, 2700}

\* slack_max of the configs tried
SlackChoices == {300, DefaultSlackMax}

\* SolverConfig(); drop_penalty 0 stands for None
SolverConfigs == [drop_penalty : {0}, slack_max : SlackChoices]

Horizon(r) == Max(0, r.endTime - r.start.time)

OrtTravelSeconds(r, origin, destination) ==
    StraightLineSeconds(origin, destination, r.walkingSpeed)

OrtDwellSec(r, row) ==
    LET event_default == Or(row.min_dwell_min, DefaultDwellMin)
        requested == DwellGet(build_dwell_map(r.events), row.event_id)
        picked_min == IF requested = 0 THEN event_default
                      ELSE Max(requested, event_default)
        dwell_minutes == IF r.compressDwellToMin THEN event_default ELSE picked_min
    IN  dwell_minutes * 60

OrtWindowUncapped(start_offset, end_offset, dwell_sec, horizon) ==
    clamp_time_window(start_offset, end_offset - dwell_sec)

\* lines 128-129
OrtWindow(start_offset, end_offset, dwell_sec, horizon) ==
    clamp_time_window(start_offset, Min(horizon, end_offset - dwell_sec))

\* lines 114-146: the SessionNode of one row
OrtSessionNode(r, row) ==
    LET dwell_sec == OrtDwellSec(r, row)
        tw == OrtWindow(row.start_ts - r.start.time, row.end_ts - r.start.time,
                        dwell_sec, Horizon(r))
    IN  [event_id |-> row.event_id, session_start |-> row.start_ts,
         session_end |-> row.end_ts, has_pos |-> TRUE, lat |-> row.lat,
         service_sec |-> dwell_sec, tw_start |-> tw.start, tw_end |-> tw.end]

\* lines 96-111; event_id "" stands for None
OrtDepot(r) ==
    [event_id |-> "", session_start |-> 0, session_end |-> 0, has_pos |-> TRUE,
     lat |-> r.start.lat, service_sec |-> 0, tw_start |-> 0, tw_end |-> Horizon(r)]

\* lines 149-159
OrtSink(r) ==
    [event_id |-> "", session_start |-> 0, session_end |-> 0, has_pos |-> FALSE,
     lat |-> 0, service_sec |-> 0, tw_start |-> 0, tw_end |-> Horizon(r)]

\* nodes[1] is the depot (index 0 of the code), nodes[Len] the sink
OrtNodes(r, rws) ==
    <<OrtDepot(r)>> \o [i \in 1..Len(rws) |-> OrtSessionNode(r, rws[i])] \o <<OrtSink(r)>>

\* lines 172-184
OrtTravelMatrix(r, ns) ==
    [i \in 1..Len(ns) |-> [j \in 1..Len(ns) |->
        IF i = j \/ ~ns[j].has_pos \/ ~ns[i].has_pos THEN 0
        ELSE Max(0, OrtTravelSeconds(r, ns[i].lat, ns[j].lat))]]

\* node_per_event[id], as node indices in row order
node_per_event(ns, id) ==
    SelectSeq([i \in 1..Len(ns) |-> i], LAMBDA i : ns[i].event_id = id)

OrtGroupIds(ns) == { ns[i].event_id : i \in 2..(Len(ns) - 1) }

OrtDropPenaltyOfSlack(c, horizon) == c.slack_max

\* lines 165-166
OrtDropPenalty(c, horizon) ==
    IF c.drop_penalty = 0 THEN Max(MinDropPenalty, horizon * 4) ELSE c.drop_penalty

transit_cb_travel_only(ns, tm, i, j) == tm[i][j]

transit_cb_service_of_destination(ns, tm, i, j) == ns[j].service_sec + tm[i][j]

\* transit_cb, lines 201-206
transit_cb(ns, tm, i, j) == ns[i].service_sec + tm[i][j]

\* lines 208-209: the callback registered as transit and as arc cost evaluator,
\* tabulated over the arcs of the model
OrtTransit(ns, tm) ==
    [i \in 1..Len(ns) |-> [j \in 1..Len(ns) |-> transit_cb(ns, tm, i, j)]]

\* lines 214-218: CumulVar(idx).SetRange(start, end)
CumulInRange(node, c) ==
    LET start == Max(0, node.tw_start)
    IN  start <= c /\ c <= Max(start, node.tw_end)

DisjunctionsMissing(ns, tour) == TRUE

\* lines 220-222: AddDisjunction(group, penalty, 1): at most one node of a group is visited
DisjunctionsHold(ns, tour) ==
    \A id \in OrtGroupIds(ns) :
        Cardinality({ k \in 1..Len(tour) : ns[tour[k]].event_id = id }) <= 1

DimensionHoldsAnySlack(ns, tm, tour, cumul, slack_max, horizon) ==
    LET Node(k) == IF k = 0 THEN 1 ELSE tour[k]
        Cumul(k) == IF k = 0 THEN 0 ELSE cumul[k]
        n == Len(tour)
    IN  /\ \A k \in 1..n :
              /\ Cumul(k) >= Cumul(k - 1) + transit_cb(ns, tm, Node(k - 1), Node(k))
              /\ Cumul(k) <= horizon
        /\ Cumul(n) + transit_cb(ns, tm, Node(n), Len(ns)) <= horizon

\* line 211: AddDimension(transit, slack_max, horizon, True, "Time") along the path
\* depot -> tour -> sink: the start cumul is 0, each cumul is the previous one plus
\* transit plus a slack in 0..slack_max, and no cumul exceeds the capacity
DimensionHolds(ns, tm, tour, cumul, slack_max, horizon) ==
    LET Node(k) == IF k = 0 THEN 1 ELSE tour[k]
        Cumul(k) == IF k = 0 THEN 0 ELSE cumul[k]
        n == Len(tour)
    IN  /\ \A k \in 1..n :
              /\ Cumul(k) - (Cumul(k - 1) + transit_cb(ns, tm, Node(k - 1), Node(k)))
                    \in 0..slack_max
              /\ Cumul(k) <= horizon
        /\ Cumul(n) + transit_cb(ns, tm, Node(n), Len(ns)) <= horizon

\* the assignments the routing backend may return for the submitted model
BackendSolutions(ns, tm, slack_max, horizon) ==
    LET interior == 2..(Len(ns) - 1)
        tours == { t \in UNION { Perms(T) : T \in SUBSET interior } :
                     DisjunctionsHold(ns, t) }
    IN  { sol \in UNION { [tour : {t}, cumul : [1..Len(t) -> CumulGrid]] : t \in tours } :
            /\ \A k \in 1..Len(sol.tour) : CumulInRange(ns[sol.tour[k]], sol.cumul[k])
            /\ DimensionHolds(ns, tm, sol.tour, sol.cumul, slack_max, horizon) }

\* lines 248-290: the stop appended for position k of the tour
OrtStop(r, ns, tm, sol, k) ==
    LET node_index == sol.tour[k]
        prev_node_index == IF k = 1 THEN 1 ELSE sol.tour[k - 1]
        node == ns[node_index]
        arrive_dt == r.start.time + sol.cumul[k]
    IN  [eventId |-> node.event_id,
         sessionStart |-> node.session_start,
         sessionEnd |-> node.session_end,
         arrive |-> arrive_dt,
         depart |-> earliest_departure(arrive_dt, node.service_sec),
         dwellSec |-> node.service_sec,
         travelSecFromPrev |-> tm[prev_node_index][node_index],
         lat |-> node.lat]

OrtDroppedOfGroups(r, ns, rt) ==
    LET visited == { rt[k].eventId : k \in 1..Len(rt) }
        missing == SelectSeq(r.events,
                             LAMBDA ev : ev.id \notin visited /\ ev.id \in OrtGroupIds(ns))
    IN  [i \in 1..Len(missing) |->
           LET group == node_per_event(ns, missing[i].id)
               tws == [g \in 1..Len(group) |->
                         [start |-> ns[group[g]].tw_start, end |-> ns[group[g]].tw_end]]
           IN  summarise_drop_reason(missing[i].id, tws, Horizon(r))]

\* lines 292-297
OrtDropped(r, ns, rt) ==
    LET visited == { rt[k].eventId : k \in 1..Len(rt) }
        missing == SelectSeq(r.events, LAMBDA ev : ev.id \notin visited)
    IN  [i \in 1..Len(missing) |->
           LET group == node_per_event(ns, missing[i].id)
               tws == [g \in 1..Len(group) |->
                         [start |-> ns[group[g]].tw_start, end |-> ns[group[g]].tw_end]]
           IN  summarise_drop_reason(missing[i].id, tws, Horizon(r))]

OrtInfeasibleResponseOfGroups(r, ns) ==
    LET grouped == SelectSeq(r.events, LAMBDA ev : ev.id \in OrtGroupIds(ns))
    IN  [route |-> <<>>,
         dropped |-> [i \in 1..Len(grouped) |->
                        [eventId |-> grouped[i].id, reason |-> "infeasible",
                         sessionsConsidered |-> 0]],
         metrics |-> [visited |-> 0, dropped |-> Len(grouped),
                      totalWalkSec |-> 0, solver |-> "ortools-timeout"]]

\* lines 233-242: the response when the backend returns no assignment
OrtInfeasibleResponse(r, ns) ==
    [route |-> <<>>,
     dropped |-> [i \in 1..Len(r.events) |->
                    [eventId |-> r.events[i].id, reason |-> "infeasible",
                     sessionsConsidered |-> 0]],
     metrics |-> [visited |-> 0, dropped |-> Len(r.events),
                  totalWalkSec |-> 0, solver |-> "ortools-timeout"]]

RECURSIVE SumWalk(_)
SumWalk(rt) == IF rt = <<>> THEN 0 ELSE Head(rt).travelSecFromPrev + SumWalk(Tail(rt))

OrtInit ==
    /\ o_pc = "start"
    /\ cfg \in SolverConfigs
    /\ o_rows = <<>>
    /\ nodes = <<>>
    /\ travel_matrix = <<>>
    /\ transit = <<>>
    /\ solution = <<>>
    /\ o_response = <<>>

OrtIdle ==
    /\ o_pc = "idle"
    /\ cfg = [drop_penalty |-> 0, slack_max |-> DefaultSlackMax]
    /\ o_rows = <<>>
    /\ nodes = <<>>
    /\ travel_matrix = <<>>
    /\ transit = <<>>
    /\ solution = <<>>
    /\ o_response = <<>>

StubIdle ==
    /\ pc = "idle"
    /\ rows = <<>>
    /\ ev_idx = 0
    /\ curr_time = 0
    /\ curr_pos = 0
    /\ total_walk = 0
    /\ route = <<>>
    /\ dropped = <<>>
    /\ response = <<>>

\* lines 79-94: no candidate rows
OrtNoRows ==
    /\ o_pc = "start"
    /\ LET fetched == fetch_candidates(store, { req.events[i].id : i \in 1..Len(req.events) },
                                       DateOf(req.start.time))
       IN  /\ fetched = <<>>
           /\ o_rows' = fetched
           /\ o_response' =
                 [route |-> <<>>,
                  dropped |-> [i \in 1..Len(req.events) |->
                                 [eventId |-> req.events[i].id, reason |-> "no_sessions_on_date",
                                  sessionsConsidered |-> 0]],
                  metrics |-> [visited |-> 0, dropped |-> Len(req.events),
                               totalWalkSec |-> 0, solver |-> "ortools-none"]]
    /\ o_pc' = "done"
    /\ UNCHANGED <<reqVars, notOrtVars, cfg, nodes, travel_matrix, transit, solution>>

\* lines 79-222: the graph, the travel matrix and the routing model
OrtBuild ==
    /\ o_pc = "start"
    /\ LET fetched == fetch_candidates(store, { req.events[i].id : i \in 1..Len(req.events) },
                                       DateOf(req.start.time))
           ns == OrtNodes(req, fetched)
       IN  /\ fetched # <<>>
           /\ o_rows' = fetched
           /\ nodes' = ns
           /\ travel_matrix' = OrtTravelMatrix(req, ns)
           /\ transit' = OrtTransit(ns, OrtTravelMatrix(req, ns))
    /\ cfg' = [cfg EXCEPT !.drop_penalty = OrtDropPenalty(cfg, Horizon(req))]
    /\ o_pc' = "model"
    /\ UNCHANGED <<reqVars, notOrtVars, solution, o_response>>

\* lines 224-231: the backend returns an assignment
OrtSolve ==
    /\ o_pc = "model"
    /\ solution' \in BackendSolutions(nodes, travel_matrix, cfg.slack_max, Horizon(req))
    /\ o_pc' = "solved"
    /\ UNCHANGED <<reqVars, notOrtVars, cfg, o_rows, nodes, travel_matrix, transit, o_response>>

\* lines 224-242: the backend returns no assignment (infeasible or out of time)
OrtNoSolution ==
    /\ o_pc = "model"
    /\ o_response' = OrtInfeasibleResponse(req, nodes)
    /\ o_pc' = "done"
    /\ UNCHANGED <<reqVars, notOrtVars, cfg, o_rows, nodes, travel_matrix, transit, solution>>

\* lines 244-306: the tour translated into the response
OrtTranslate ==
    /\ o_pc = "solved"
    /\ LET rt == [k \in 1..Len(solution.tour) |->
                    OrtStop(req, nodes, travel_matrix, solution, k)]
           dr == OrtDropped(req, nodes, rt)
       IN  o_response' =
             [route |-> rt, dropped |-> dr,
              metrics |-> [visited |-> Len(rt), dropped |-> Len(dr),
                           totalWalkSec |-> SumWalk(rt), solver |-> "ortools-tsp-tw"]]
    /\ o_pc' = "done"
    /\ UNCHANGED <<reqVars, notOrtVars, cfg, o_rows, nodes, travel_matrix, transit, solution>>

OrtNext == OrtNoRows \/ OrtBuild \/ OrtSolve \/ OrtNoSolution \/ OrtTranslate

(***************************************************************************)
(* util.py: encode_polyline(points, precision = 5), one point per step     *)
(***************************************************************************)
\* largest number of points of an encoded path
MaxPoints == 2

\* coordinates tried: the documented vector, ties of the rounding, both signs
PolyCoordinates ==
    { <<38500000, -120200000>>, <<40700000, -120950000>>, <<43252000, -126453000>>,
      <<0, 0>>, <<15, -25>>, <<-5, 179999995>> }

PolyInputs == UNION { [1..n -> PolyCoordinates] : n \in 0..MaxPoints }

PolyInit ==
    /\ p_pc = "loop"
    /\ points \in PolyInputs
    /\ p_idx = 1
    /\ prev_lat = 0
    /\ prev_lng = 0
    /\ output = <<>>
    /\ encoded = ""

PolyIdle ==
    /\ p_pc = "idle"
    /\ points = <<>>
    /\ p_idx = 0
    /\ prev_lat = 0
    /\ prev_lng = 0
    /\ output = <<>>
    /\ encoded = ""

\* lines 82-87
EncodePoint ==
    /\ p_pc = "loop"
    /\ p_idx <= Len(points)
    /\ LET lat_i == ScaleAndRound(points[p_idx][1])
           lng_i == ScaleAndRound(points[p_idx][2])
       IN  /\ output' = output \o EncodedPoint(points[p_idx], prev_lat, prev_lng)
           /\ prev_lat' = lat_i
           /\ prev_lng' = lng_i
    /\ p_idx' = p_idx + 1
    /\ UNCHANGED <<notPolyVars, p_pc, points, encoded>>

\* line 88
EncodeReturn ==
    /\ p_pc = "loop"
    /\ p_idx > Len(points)
    /\ encoded' = JoinChars(output)
    /\ p_pc' = "done"
    /\ UNCHANGED <<notPolyVars, points, p_idx, prev_lat, prev_lng, output>>

PolyNext == EncodePoint \/ EncodeReturn

\* the /solve endpoint is not called
MainIdle ==
    /\ m_pc = "idle"
    /\ m_env = [use_ortools |-> FALSE, has_ortools |-> FALSE]
    /\ m_ort = "not_called"
    /\ m_status = 0
    /\ m_response = <<>>

\* no concurrent lookups run
ConcIdle ==
    /\ workers = <<>>
    /\ writes = {}

\* no calls of solve_ortools share the process
SharedIdle ==
    /\ dbg = <<>>
    /\ conf = <<>>
    /\ calls = <<>>

\* no request is being constructed
ValIdle ==
    /\ raw = <<>>
    /\ v_pc = "idle"
    /\ v_error = {}

ReqIdle ==
    /\ req = [start |-> [lat |-> 0, time |-> 0], endTime |-> 0, events |-> <<>>,
              walkingSpeed |-> 0, compressDwellToMin |-> FALSE]
    /\ store = {}

(***************************************************************************)
(* cache.py, travel.py, directions.py: the caching providers               *)
(***************************************************************************)
\* largest number of lookups and of clock ticks of a behaviour
MaxLookups == 2
MaxTicks == 2

\* seconds per tick of the clock
TickSeconds == 30

\* StraightLineTravel.walking_speed default, in mm/s
DefaultWalkingSpeed == 1350

\* ttl_minutes of (matrix, directions) repositories: one minute each, or the defaults
TtlConfigs == { [matrix |-> 1, directions |-> 1], [matrix |-> 1440, directions |-> 10080] }

\* walkingSpeed of the requests being solved, in mm/s: the default and a slower one
RequestSpeeds == {1000, DefaultWalkingSpeed}

\* latitudes looked up: -30, 0 and 30 agree to 4 decimal places, 130 does not
CacheOrigins == {-30, 0, 30, 130}
CacheDestinations == {3649}

\* round(x, ndigits) of a latitude of x millionths of a degree, to a multiple of unit
\* millionths (100 for 4 digits, 10 for 5), exact ties to the even neighbour
RoundTo(x, unit) ==
    LET q == x \div unit
        r == x % unit
    IN  IF 2 * r < unit THEN q * unit
        ELSE IF 2 * r > unit THEN (q + 1) * unit
        ELSE IF q % 2 = 0 THEN q * unit ELSE (q + 1) * unit

\* f"{round(x, ndigits)}": the text of the rounded float, as (leading minus of a
\* zero, value); a negative x that rounds to zero gives -0.0, printed "-0.0"
FormatRounded(x, unit) == <<x < 0 /\ RoundTo(x, unit) = 0, RoundTo(x, unit)>>

\* MatrixCacheKey.serialise; all points lie on one meridian, the longitudes are left out
MatrixKey(provider, mode, origin, destination, bucket) ==
    <<provider, mode, FormatRounded(origin, 100), FormatRounded(destination, 100), bucket>>

\* DirectionsCacheKey.serialise
DirectionsKey(provider, mode, origin, destination) ==
    <<provider, mode, FormatRounded(origin, 10), FormatRounded(destination, 10)>>

CacheGetIgnoringExpiry(table, key, now) == { row \in table : row.cache_key = key }

\* SELECT ... WHERE cache_key = key AND expires_at > now(): the set of matching rows
CacheGet(table, key, now) == { row \in table : row.cache_key = key /\ row.expires_at > now }

\* INSERT ... ON CONFLICT (cache_key) DO UPDATE
CacheStore(table, row) == { r \in table : r.cache_key # row.cache_key } \cup {row}

\* int(x) of a distance of x millimetres, as whole metres in millimetres
IntMetres(mm) == (mm \div 1000) * 1000

\* answers of the matrix service: a failed request, a body without durations, a body
\* without distances, and full bodies (durations in ms, distances in mm)
MatrixResponses ==
    { [status |-> "error", has_durations |-> FALSE, duration_ms |-> 0,
       has_distances |-> FALSE, distance_mm |-> 0],
      [status |-> "ok", has_durations |-> FALSE, duration_ms |-> 0,
       has_distances |-> FALSE, distance_mm |-> 0],
      [status |-> "ok", has_durations |-> TRUE, duration_ms |-> 371200,
       has_distances |-> FALSE, distance_mm |-> 0],
      [status |-> "ok", has_durations |-> TRUE, duration_ms |-> 371200,
       has_distances |-> TRUE, distance_mm |-> 512300] }

\* MapboxMatrixProvider.travel_seconds, lines 79-95
MapboxTravelSeconds(resp) ==
    IF resp.status # "ok" \/ ~resp.has_durations
    THEN [raised |-> TRUE, seconds |-> 0, has_distance |-> FALSE, distanceM |-> 0]
    ELSE [raised |-> FALSE, seconds |-> resp.duration_ms \div 1000,
          has_distance |-> resp.has_distances,
          distanceM |-> IF resp.has_distances THEN resp.distance_mm ELSE 0]

\* StraightLineTravel().travel_seconds, lines 44-47
FallbackTravel(origin, destination) ==
    [seconds |-> StraightLineSeconds(origin, destination, DefaultWalkingSpeed),
     distanceM |-> haversine_m(origin, destination)]

TravelFailurePropagates(origin, destination, now) ==
    [kind |-> "travel", origin |-> origin, destination |-> destination, at |-> now,
     outcome |-> "raised", provider_called |-> TRUE, provider_raised |-> TRUE,
     provider |-> "", cached |-> FALSE, fallback |-> FALSE, stored |-> FALSE,
     seconds |-> 0, has_distance |-> FALSE, distanceM |-> 0, polyline |-> ""]

TravelOnFailureStoring(origin, destination, now) ==
    [kind |-> "travel", origin |-> origin, destination |-> destination, at |-> now,
     outcome |-> "returned", provider_called |-> TRUE, provider_raised |-> TRUE,
     provider |-> "straight_line", cached |-> FALSE, fallback |-> TRUE, stored |-> TRUE,
     seconds |-> FallbackTravel(origin, destination).seconds,
     has_distance |-> TRUE,
     distanceM |-> FallbackTravel(origin, destination).distanceM,
     polyline |-> ""]

\* CachedTravelProvider.travel_seconds, lines 157-160: the provider raised
TravelOnFailure(origin, destination, now) ==
    [kind |-> "travel", origin |-> origin, destination |-> destination, at |-> now,
     outcome |-> "returned", provider_called |-> TRUE, provider_raised |-> TRUE,
     provider |-> "straight_line", cached |-> FALSE, fallback |-> TRUE, stored |-> FALSE,
     seconds |-> FallbackTravel(origin, destination).seconds,
     has_distance |-> TRUE,
     distanceM |-> FallbackTravel(origin, destination).distanceM,
     polyline |-> ""]

TravelOnHitRefreshing(cached, origin, destination, now) ==
    [kind |-> "travel", origin |-> origin, destination |-> destination,
     at |-> now, outcome |-> "returned", provider_called |-> FALSE,
     provider_raised |-> FALSE, provider |-> "mapbox", cached |-> TRUE,
     fallback |-> FALSE, stored |-> TRUE,
     seconds |-> cached.duration_sec,
     has_distance |-> cached.has_distance,
     distanceM |-> cached.distance_m,
     polyline |-> ""]

\* CachedTravelProvider.travel_seconds, lines 145-151: the row repo.get returned
TravelOnHit(cached, origin, destination, now) ==
    [kind |-> "travel", origin |-> origin, destination |-> destination,
     at |-> now, outcome |-> "returned", provider_called |-> FALSE,
     provider_raised |-> FALSE, provider |-> "mapbox", cached |-> TRUE,
     fallback |-> FALSE, stored |-> FALSE,
     seconds |-> cached.duration_sec,
     has_distance |-> cached.has_distance,
     distanceM |-> cached.distance_m,
     polyline |-> ""]

\* CachedTravelProvider.travel_seconds, lines 143-160: the result of one lookup
TravelLookupResult(table, origin, destination, now, resp) ==
    LET key == MatrixKey("mapbox", "walk", origin, destination, "")
        hit == CacheGet(table, key, now)
        got == MapboxTravelSeconds(resp)
    IN  IF hit # {}
        THEN TravelOnHit(CHOOSE row \in hit : TRUE, origin, destination, now)
        ELSE IF ~got.raised
        THEN [kind |-> "travel", origin |-> origin, destination |-> destination,
              at |-> now, outcome |-> "returned", provider_called |-> TRUE,
              provider_raised |-> FALSE, provider |-> "mapbox", cached |-> FALSE,
              fallback |-> FALSE, stored |-> TRUE,
              seconds |-> got.seconds,
              has_distance |-> got.has_distance,
              distanceM |-> got.distanceM,
              polyline |-> ""]
        ELSE TravelOnFailure(origin, destination, now)

\* the row written by repo.store(key, seconds, int(distance), meta), line 155 and
\* MatrixCacheRepository.store
MatrixRow(origin, destination, now, ttl_minutes, res) ==
    [cache_key |-> MatrixKey("mapbox", "walk", origin, destination, ""),
     duration_sec |-> res.seconds,
     has_distance |-> res.has_distance,
     distance_m |-> IF res.has_distance THEN IntMetres(res.distanceM) ELSE 0,
     expires_at |-> now + ttl_minutes * 60]

\* answers of the directions service: a failed request, a body without routes, a route
DirectionsResponses ==
    { [status |-> "error", has_route |-> FALSE, geometry |-> "", duration_ms |-> 0,
       distance_mm |-> 0],
      [status |-> "ok", has_route |-> FALSE, geometry |-> "", duration_ms |-> 0,
       distance_mm |-> 0],
      [status |-> "ok", has_route |-> TRUE, geometry |-> "road", duration_ms |-> 371200,
       distance_mm |-> 512300] }

\* MapboxDirectionsProvider.get_directions, lines 73-85
MapboxDirections(resp) ==
    IF resp.status # "ok" \/ ~resp.has_route
    THEN [raised |-> TRUE, polyline |-> "", durationSec |-> 0, distanceM |-> 0]
    ELSE [raised |-> FALSE, polyline |-> resp.geometry,
          durationSec |-> resp.duration_ms \div 1000,
          distanceM |-> IntMetres(resp.distance_mm)]

\* StraightLineDirectionsProvider.get_directions, lines 37-45, on the meridian of longitude 0
StraightLineDirections(origin, destination) ==
    encode_polyline(<< <<origin, 0>>, <<destination, 0>> >>)

\* CachedDirectionsProvider.get_directions, lines 132-134: the provider raised
\* (the fallback's result is returned as it is: no "cached" and no "fallback" key)
DirectionsOnFailure(origin, destination, now) ==
    [kind |-> "directions", origin |-> origin, destination |-> destination, at |-> now,
     outcome |-> "returned", provider_called |-> TRUE, provider_raised |-> TRUE,
     provider |-> "straight_line", cached |-> FALSE, fallback |-> FALSE, stored |-> FALSE,
     seconds |-> 0, has_distance |-> FALSE, distanceM |-> 0,
     polyline |-> StraightLineDirections(origin, destination)]

\* CachedDirectionsProvider.get_directions, lines 111-134: the result of one lookup
DirectionsLookupResult(table, origin, destination, now, resp) ==
    LET key == DirectionsKey("mapbox", "walk", origin, destination)
        hit == CacheGet(table, key, now)
        got == MapboxDirections(resp)
    IN  IF hit # {}
        THEN LET cached == CHOOSE row \in hit : TRUE
             IN  [kind |-> "directions", origin |-> origin, destination |-> destination,
                  at |-> now, outcome |-> "returned", provider_called |-> FALSE,
                  provider_raised |-> FALSE, provider |-> "mapbox", cached |-> TRUE,
                  fallback |-> FALSE, stored |-> FALSE,
                  seconds |-> cached.duration_sec,
                  has_distance |-> cached.has_distance,
                  distanceM |-> cached.distance_m,
                  polyline |-> cached.polyline]
        ELSE IF ~got.raised
        THEN [kind |-> "directions", origin |-> origin, destination |-> destination,
              at |-> now, outcome |-> "returned", provider_called |-> TRUE,
              provider_raised |-> FALSE, provider |-> "mapbox", cached |-> FALSE,
              fallback |-> FALSE, stored |-> TRUE,
              seconds |-> got.durationSec,
              has_distance |-> TRUE,
              distanceM |-> got.distanceM,
              polyline |-> got.polyline]
        ELSE DirectionsOnFailure(origin, destination, now)

\* the row written by DirectionsCacheRepository.store, lines 123-129
DirectionsRow(origin, destination, now, ttl_minutes, res) ==
    [cache_key |-> DirectionsKey("mapbox", "walk", origin, destination),
     duration_sec |-> res.seconds,
     has_distance |-> res.has_distance,
     distance_m |-> res.distanceM,
     polyline |-> res.polyline,
     expires_at |-> now + ttl_minutes * 60]

CacheInit ==
    /\ clock = 0
    /\ ttl \in TtlConfigs
    /\ matrix_cache = {}
    /\ directions_cache = {}
    /\ lookups = <<>>

CacheIdle ==
    /\ clock = 0
    /\ ttl = [matrix |-> 1440, directions |-> 10080]
    /\ matrix_cache = {}
    /\ directions_cache = {}
    /\ lookups = <<>>

\* TravelTimeWrapper.travel_seconds, line 115: the inner provider is not a
\* StraightLineTravel, the call is passed on and walking_speed is not used;
\* the record notes the speed of the request the wrapper was made for
WrapperTravelSeconds(walking_speed, table, origin, destination, now, resp) ==
    TravelLookupResult(table, origin, destination, now, resp)
        @@ [walking_speed |-> walking_speed]

\* TravelTimeWrapper(CachedTravelProvider, req.walkingSpeed).travel_seconds(origin,
\* destination), as solve_stub and solve_ortools call it
TravelLookup(origin, destination, resp, walking_speed) ==
    /\ Len(lookups) < MaxLookups
    /\ LET res == WrapperTravelSeconds(walking_speed, matrix_cache, origin, destination,
                                       clock, resp)
       IN  /\ lookups' = Append(lookups, res)
           /\ matrix_cache' =
                 IF res.stored
                 THEN CacheStore(matrix_cache,
                                 MatrixRow(origin, destination, clock, ttl.matrix, res))
                 ELSE matrix_cache
    /\ UNCHANGED <<notCacheVars, clock, ttl, directions_cache>>

\* CachedDirectionsProvider.get_directions(origin, destination)
DirectionsLookup(origin, destination, resp) ==
    /\ Len(lookups) < MaxLookups
    /\ LET res == DirectionsLookupResult(directions_cache, origin, destination, clock, resp)
       IN  /\ lookups' = Append(lookups, res)
           /\ directions_cache' =
                 IF res.stored
                 THEN CacheStore(directions_cache,
                                 DirectionsRow(origin, destination, clock, ttl.directions, res))
                 ELSE directions_cache
    /\ UNCHANGED <<notCacheVars, clock, ttl, matrix_cache>>

\* time passes
Tick ==
    /\ clock < MaxTicks * TickSeconds
    /\ clock' = clock + TickSeconds
    /\ UNCHANGED <<notCacheVars, ttl, matrix_cache, directions_cache, lookups>>

CacheNext ==
    \/ \E o \in CacheOrigins, d \in CacheDestinations, resp \in MatrixResponses,
          speed \in RequestSpeeds :
          TravelLookup(o, d, resp, speed)
    \/ \E o \in CacheOrigins, d \in CacheDestinations, resp \in DirectionsResponses :
          DirectionsLookup(o, d, resp)
    \/ Tick

\* only the caching providers run
InitCache == ReqIdle /\ StubIdle /\ OrtIdle /\ PolyIdle /\ DropIdle /\ CacheInit /\ MainIdle /\ ConcIdle /\ ValIdle /\ SharedIdle

SpecCache == InitCache /\ [][CacheNext]_vars

\* only encode_polyline runs
InitPolyline == ReqIdle /\ StubIdle /\ OrtIdle /\ PolyInit /\ DropIdle /\ CacheIdle /\ MainIdle /\ ConcIdle /\ ValIdle /\ SharedIdle

SpecPolyline == InitPolyline /\ [][PolyNext]_vars

(***************************************************************************)
(* Claims about the caching providers                                      *)
(***************************************************************************)
\* C8: of two successive cost lookups of the same origin and destination, the
\* first a miss answered by the wrapped provider (tagged cached = false) and the
\* second made before the entry expires, the second is tagged cached = true and
\* returns the same seconds and the same distance as the first
CacheIdempotence ==
    \A i \in 1..(Len(lookups) - 1) :
        LET first == lookups[i]
            second == lookups[i + 1]
        IN  ( /\ first.kind = "travel" /\ second.kind = "travel"
              /\ first.origin = second.origin /\ first.destination = second.destination
              /\ first.provider_called /\ ~first.provider_raised
              /\ second.at < first.at + ttl.matrix * 60 )
            => /\ ~first.cached
               /\ second.cached
               /\ second.seconds = first.seconds
               /\ second.has_distance = first.has_distance
               /\ second.distanceM = first.distanceM

\* C9: a lookup whose wrapped provider raises still returns a value, the
\* straight-line baseline, for cost and for geometry alike
FallbackOnFailure ==
    \A i \in 1..Len(lookups) :
        LET l == lookups[i]
        IN  l.provider_raised =>
              /\ l.outcome = "returned"
              /\ l.kind = "travel" =>
                    /\ l.seconds = haversine_m(l.origin, l.destination) \div DefaultWalkingSpeed
                    /\ l.distanceM = haversine_m(l.origin, l.destination)
              /\ l.kind = "directions" =>
                    l.polyline = encode_polyline(<< <<l.origin, 0>>, <<l.destination, 0>> >>)

BothProvidersFellBack ==
    /\ Len(lookups) = 2
    /\ lookups[1].kind = "travel" /\ lookups[1].provider_raised
    /\ lookups[2].kind = "directions" /\ lookups[2].provider_raised

(***************************************************************************)
(* Claims about the polyline encoder                                       *)
(***************************************************************************)
UnZigZag(v) == IF v % 2 = 1 THEN -(v \div 2) - 1 ELSE v \div 2

RECURSIVE DecodeValues(_, _, _, _)
\* the reference decoder of the polyline format: 5-bit groups, low group first,
\* each offset by 63, a group of 32 or more announcing another group
DecodeValues(codes, i, mult, acc) ==
    IF i > Len(codes) THEN <<>>
    ELSE LET b == codes[i] - 63
             acc2 == acc + (b % 32) * mult
         IN  IF b >= 32 THEN DecodeValues(codes, i + 1, mult * 32, acc2)
             ELSE <<UnZigZag(acc2)>> \o DecodeValues(codes, i + 1, 1, 0)

RECURSIVE SumPairs(_, _, _)
\* the points whose successive differences are the values, two per point
SumPairs(values, lat, lng) ==
    IF Len(values) < 2 THEN <<>>
    ELSE <<<<lat + values[1], lng + values[2]>>>>
           \o SumPairs(SubSeq(values, 3, Len(values)), lat + values[1], lng + values[2])

DecodePolyline(codes) == SumPairs(DecodeValues(codes, 1, 1, 0), 0, 0)

\* each coordinate times 10^5, rounded to the nearest integer, in 1e-5 degrees
RoundedPoints(pts) ==
    [i \in 1..Len(pts) |->
        << (pts[i][1] + 5) \div 10 - (IF pts[i][1] % 20 = 5 THEN 1 ELSE 0),
           (pts[i][2] + 5) \div 10 - (IF pts[i][2] % 20 = 5 THEN 1 ELSE 0) >>]

KnownVector == << <<38500000, -120200000>>, <<40700000, -120950000>> >>

\* C10: the encoding is the standard polyline format of the rounded points (the
\* reference decoder reads them back, every character lies in chr(63)..chr(126)),
\* and (38.5,-120.2),(40.7,-120.95) encode to _p~iF~ps|U_ulLnnqC
PolylineBitExact ==
    /\ \A k \in 1..Len(output) : output[k] \in 63..126
    /\ DecodePolyline(output) = RoundedPoints(SubSeq(points, 1, p_idx - 1))
    /\ (p_pc = "done" /\ points = KnownVector) => encoded = "_p~iF~ps|U_ulLnnqC"

KnownVectorEncoded ==
    /\ p_pc = "done"
    /\ points = KnownVector

(***************************************************************************)
(* Specification of the two schedulers: a request is served by one of them *)
(***************************************************************************)
Init ==
    /\ ReqInit
    /\ PolyIdle
    /\ CacheIdle
    /\ DropIdle
    /\ MainIdle
    /\ ConcIdle
    /\ ValIdle /\ SharedIdle
    /\ \/ StubInit /\ OrtIdle
       \/ OrtInit /\ StubIdle

Next == StubNext \/ OrtNext

Spec == Init /\ [][Next]_vars

(***************************************************************************)
(* Claims about the schedulers                                             *)
(***************************************************************************)
StopDepartureBounds(stop, end_dt) ==
    /\ stop.depart = stop.arrive + stop.dwellSec
    /\ stop.depart <= stop.sessionEnd
    /\ stop.depart <= end_dt

\* C1: every stop of the greedy scheduler's route departs at arrive + dwellSec,
\* no later than its session's end and no later than the request's endTime
StubDepartureBounds ==
    /\ \A k \in 1..Len(route) : StopDepartureBounds(route[k], req.endTime)
    /\ pc = "done" =>
          \A k \in 1..Len(response.route) :
              StopDepartureBounds(response.route[k], req.endTime)

StubTwoStopsReturned ==
    /\ pc = "done"
    /\ Len(response.route) = 2
    /\ response.route[2].depart = req.endTime
    /\ response.route[2].depart < response.route[2].sessionEnd

\* C2: every stop of the optimal scheduler's translated route departs at
\* arrive + dwellSec, no later than its session's end and no later than the
\* request's endTime
OptDepartureBounds ==
    o_pc = "done" =>
        \A k \in 1..Len(o_response.route) :
            StopDepartureBounds(o_response.route[k], req.endTime)

\* C3: each event id occurs at most once in the optimal scheduler's route
OptOneStopPerEvent ==
    o_pc = "done" =>
        \A j, k \in 1..Len(o_response.route) :
            o_response.route[j].eventId = o_response.route[k].eventId => j = k

OptTwoEventsOneOfTwoSessions ==
    /\ o_pc = "done"
    /\ Len(o_response.route) = 2
    /\ Len(nodes) = 5

\* C4: every stop of a greedy itinerary is reached no earlier than the previous
\* departure (the trip start for the first stop) plus travelSecFromPrev, and no
\* earlier than its session's start
StubArrivalLowerBound ==
    \A k \in 1..Len(route) :
        LET prev_depart == IF k = 1 THEN req.start.time ELSE route[k - 1].depart
        IN  route[k].arrive >=
              Max(prev_depart + route[k].travelSecFromPrev, route[k].sessionStart)

StubWaitsAndWalks ==
    /\ pc = "done"
    /\ Len(route) = 2
    /\ route[1].arrive = route[1].sessionStart
    /\ route[1].arrive > req.start.time + route[1].travelSecFromPrev
    /\ route[2].arrive > route[2].sessionStart

NonDecreasingDepartures(rt) ==
    \A k \in 1..(Len(rt) - 1) : rt[k].depart <= rt[k + 1].depart

\* C5: in the itinerary of either scheduler the stops appear in non-decreasing
\* order of departure time
DepartureOrder ==
    /\ NonDecreasingDepartures(route)
    /\ o_pc = "done" => NonDecreasingDepartures(o_response.route)

OptTwoStopsInOrder ==
    /\ o_pc = "done"
    /\ Len(o_response.route) = 2
    /\ o_response.route[1].dwellSec > o_response.route[2].dwellSec
    /\ o_response.route[1].depart < o_response.route[2].depart

\* C6: every node of the optimal scheduler's graph has a time-window end no
\* later than the horizon
OptWindowEndWithinHorizon ==
    \A i \in 1..Len(nodes) : nodes[i].tw_end <= Horizon(req)

AllDroppedAs(resp, reason) ==
    /\ resp.route = <<>>
    /\ Len(resp.dropped) = Len(req.events)
    /\ \A i \in 1..Len(req.events) :
          /\ resp.dropped[i].eventId = req.events[i].id
          /\ resp.dropped[i].reason = reason

\* C7: with no candidate rows both schedulers return an empty route and drop
\* every requested event with reason no_sessions_for_date
EmptyCandidatesDropReason ==
    /\ (pc = "done" /\ rows = <<>>) => AllDroppedAs(response, "no_sessions_for_date")
    /\ (o_pc = "done" /\ o_rows = <<>>) => AllDroppedAs(o_response, "no_sessions_for_date")


(***************************************************************************)
(* Claims about dwell resolution and session choice of the greedy scheduler *)
(***************************************************************************)
\* the event's minimum dwell in minutes: events.min_dwell_min, 15 when NULL
EventMinimum(id) == IF MinDwellMin(id) = 0 THEN 15 ELSE MinDwellMin(id)

\* C11: every stop of the greedy route whose event carries a requested dwell
\* reports dwellSec = 60 * max(requested, event minimum), or 60 * event
\* minimum when the request sets compressDwellToMin
StubDwellOverride ==
    pc = "done" =>
      \A k \in 1..Len(response.route) :
        \A i \in 1..Len(req.events) :
          LET stop == response.route[k]
              ev == req.events[i]
          IN  (ev.id = stop.eventId /\ ev.dwell_min # 0) =>
                 stop.dwellSec =
                   IF req.compressDwellToMin THEN 60 * EventMinimum(ev.id)
                   ELSE IF ev.dwell_min >= EventMinimum(ev.id) THEN 60 * ev.dwell_min
                   ELSE 60 * EventMinimum(ev.id)

\* a returned greedy route visits "a", whose requested 20 minutes exceed its
\* minimum of 5, without compression
StubOverrideAboveMinimum ==
    /\ pc = "done"
    /\ ~req.compressDwellToMin
    /\ \E k \in 1..Len(response.route) :
         response.route[k].eventId = "a" /\ response.route[k].dwellSec = 1200
    /\ \E i \in 1..Len(req.events) :
         req.events[i].id = "a" /\ req.events[i].dwell_min = 20


(***************************************************************************)
(* Claims about summarise_drop_reason                                      *)
(***************************************************************************)
\* only summarise_drop_reason runs
InitDrop == ReqIdle /\ StubIdle /\ OrtIdle /\ PolyIdle /\ CacheIdle /\ DropInit /\ MainIdle /\ ConcIdle /\ ValIdle /\ SharedIdle

SpecDrop == InitDrop /\ [][DropNext]_vars

\* C12: whatever the order in which a group's windows are listed, the
\* classification returns the same reason and the same sessionsConsidered
DropReasonOrderFree ==
    \A r1, r2 \in d_seen :
        r1.reason = r2.reason /\ r1.sessionsConsidered = r2.sessionsConsidered

\* a collapsed window and an open one were classified in both orders
DropReasonBothOrdersSeen ==
    /\ Len(d_tws) = 2
    /\ d_tws[1].end <= d_tws[1].start
    /\ d_tws[2].end > d_tws[2].start
    /\ d_tws[2].start < d_horizon
    /\ Cardinality(d_calls) = 2
    /\ \E r \in d_seen : r.reason = "dropped_by_solver"


(***************************************************************************)
(* main.py: the /solve endpoint and the schedulers it calls                *)
(***************************************************************************)
\* largest number of session rows of the store behind /solve
MaxMainRows == 2

\* floor of the walking speed, in mm/s
MainMinSpeed == 100
\* floor of a node's service time, in seconds
MainMinService == 60
\* slack of the time dimension, in seconds
MainSlackMax == 86400

\* requests as the endpoint receives them: the model class validates nothing
MainEventLists == UNION { [1..n -> EventIds] : n \in 0..2 }

MainRequests ==
    UNION { [start : [lat : StartPositions, time : StartTimes],
             endTime : EndTimes \cup StartTimes,
             events : { evs \in [1..Len(ids) -> [id : EventIds, dwell_min : DwellChoices]] :
                          \A i \in 1..Len(ids) : evs[i].id = ids[i] },
             walkingSpeed : Speeds] : ids \in MainEventLists }

MainStores == { S \in SUBSET AllRows : Cardinality(S) <= MaxMainRows }

\* {e.id: e.dwell_min for e in req.events}[id]: the last entry of an id wins, 0 is None
MainDwellOverride(r, id) ==
    LET mine == SelectSeq(r.events, LAMBDA e : e.id = id)
    IN  IF mine = <<>> THEN 0 ELSE mine[Len(mine)].dwell_min

\* lines 135 and 234
MainTravelSeconds(r, origin, destination) ==
    haversine_m(origin, destination) \div Max(r.walkingSpeed, MainMinSpeed)

MainEventIds(r) == { r.events[i].id : i \in 1..Len(r.events) }

\* solve_stub, lines 132-170: the loop from event i on, st the loop's variables
RECURSIVE MainStubLoop(_, _, _, _)
MainStubLoop(r, rws, i, st) ==
    IF i > Len(r.events) THEN st
    ELSE LET ev == r.events[i].id
             sess == sessions_by_event(rws, ev)
             dwell_sec == Or(MainDwellOverride(r, ev), DefaultDwellMin) * 60
             Walk(k) == MainTravelSeconds(r, st.curr_pos, sess[k].lat)
             Arrive(k) == Max(st.curr_time + Walk(k), sess[k].start_ts)
             Depart(k) == Arrive(k) + dwell_sec
             ok == { k \in 1..Len(sess) :
                       Depart(k) <= sess[k].end_ts /\ Depart(k) <= r.endTime }
         IN  IF ok # {}
             THEN LET k == CHOOSE c \in ok : \A o \in ok : c <= o
                  IN  MainStubLoop(r, rws, i + 1,
                        [curr_time |-> Depart(k), curr_pos |-> sess[k].lat,
                         total_walk |-> st.total_walk + Walk(k),
                         route |-> Append(st.route,
                            [eventId |-> ev, sessionStart |-> sess[k].start_ts,
                             sessionEnd |-> sess[k].end_ts, arrive |-> Arrive(k),
                             depart |-> Depart(k), travelSecFromPrev |-> Walk(k),
                             lat |-> sess[k].lat]),
                         dropped |-> st.dropped])
             ELSE MainStubLoop(r, rws, i + 1,
                        [st EXCEPT !.dropped = Append(st.dropped,
                            [eventId |-> ev,
                             reason |-> "no_feasible_session_within_windows"])])

\* solve_stub, lines 106-174
MainSolveStub(r, st) ==
    LET rws == fetch_candidates(st, MainEventIds(r), DateOf(r.start.time))
        end == MainStubLoop(r, rws, 1,
                  [curr_time |-> r.start.time, curr_pos |-> r.start.lat, total_walk |-> 0,
                   route |-> <<>>, dropped |-> <<>>])
    IN  IF rws = <<>>
        THEN [route |-> <<>>,
              dropped |-> << [eventId |-> "", reason |-> "no_sessions_on_date"] >>,
              metrics |-> [visited |-> 0, dropped |-> Len(r.events), totalWalkSec |-> 0,
                           solver |-> "stub"]]
        ELSE [route |-> end.route, dropped |-> end.dropped,
              metrics |-> [visited |-> Len(end.route), dropped |-> Len(end.dropped),
                           totalWalkSec |-> end.total_walk, solver |-> "stub"]]


\* solve_ortools, lines 199-213: the node of one row, with the range that
\* lines 247-252 submit for it in range_start, range_end
MainSessionNode(r, row) ==
    LET s_off == row.start_ts - r.start.time
        e_off == row.end_ts - r.start.time
        dwell == Or(Or(MainDwellOverride(r, row.event_id), row.min_dwell_min),
                    DefaultDwellMin) * 60
        a == Max(0, Max(0, s_off))
        b == Max(0, Max(0, e_off - dwell))
    IN  [event_id |-> row.event_id, session_start |-> row.start_ts,
         session_end |-> row.end_ts, has_pos |-> TRUE, lat |-> row.lat,
         service_sec |-> Max(MainMinService, dwell),
         tw_start |-> IF b < a THEN 0 ELSE a,
         tw_end |-> IF b < a THEN 0 ELSE b]

\* lines 195-197 and 215-221: depot and sink, both with the window [0, horizon]
MainNodes(r, rws) ==
    << [event_id |-> "", session_start |-> 0, session_end |-> 0, has_pos |-> TRUE,
        lat |-> r.start.lat, service_sec |-> 0, tw_start |-> 0,
        tw_end |-> r.endTime - r.start.time] >>
    \o [i \in 1..Len(rws) |-> MainSessionNode(r, rws[i])]
    \o << [event_id |-> "", session_start |-> 0, session_end |-> 0, has_pos |-> FALSE,
           lat |-> 0, service_sec |-> 0, tw_start |-> 0,
           tw_end |-> r.endTime - r.start.time] >>

\* travel_time(i, j), lines 226-234
MainTravelMatrix(r, ns) ==
    [i \in 1..Len(ns) |-> [j \in 1..Len(ns) |->
        IF j = Len(ns) \/ ~ns[i].has_pos \/ ~ns[j].has_pos THEN 0
        ELSE MainTravelSeconds(r, ns[i].lat, ns[j].lat)]]

\* lines 272-306: the response built from the backend's assignment
MainTranslate(r, ns, tm, sol) ==
    LET rt == [k \in 1..Len(sol.tour) |->
                 LET node == ns[sol.tour[k]]
                     prev == IF k = 1 THEN 1 ELSE sol.tour[k - 1]
                 IN  [eventId |-> node.event_id, sessionStart |-> node.session_start,
                      sessionEnd |-> node.session_end,
                      arrive |-> r.start.time + sol.cumul[k],
                      depart |-> r.start.time + sol.cumul[k] + node.service_sec,
                      travelSecFromPrev |-> Max(0, tm[prev][sol.tour[k]]),
                      lat |-> node.lat]]
        visited == { rt[k].eventId : k \in 1..Len(rt) }
        missing == SelectSeq(r.events, LAMBDA ev : ev.id \notin visited)
        dr == [i \in 1..Len(missing) |->
                 [eventId |-> missing[i].id, reason |-> "dropped_by_solver"]]
    IN  [route |-> rt, dropped |-> dr,
         metrics |-> [visited |-> Len(rt), dropped |-> Len(dr),
                      totalWalkSec |-> SumWalk(rt), solver |-> "ortools-tsp-tw"]]

\* solve_ortools, lines 177-306: the ways a call that does not raise can end
MainOrtoolsReturns(r, st) ==
    LET rws == fetch_candidates(st, MainEventIds(r), DateOf(r.start.time))
        ns == MainNodes(r, rws)
        tm == MainTravelMatrix(r, ns)
    IN  IF rws = <<>>
        THEN { [kind |-> "no_rows",
                response |->
                  [route |-> <<>>,
                   dropped |-> << [eventId |-> "", reason |-> "no_sessions_on_date"] >>,
                   metrics |-> [visited |-> 0, dropped |-> Len(r.events),
                                totalWalkSec |-> 0, solver |-> "none"]]] }
        ELSE { [kind |-> "no_solution",
                response |->
                  [route |-> <<>>,
                   dropped |-> [i \in 1..Len(r.events) |->
                                  [eventId |-> r.events[i].id, reason |-> "infeasible"]],
                   metrics |-> [visited |-> 0, dropped |-> Len(r.events),
                                totalWalkSec |-> 0, solver |-> "ortools-none"]]] }
             \cup
             { [kind |-> "solution", response |-> MainTranslate(r, ns, tm, sol)] :
                 sol \in BackendSolutions(ns, tm, MainSlackMax, r.endTime - r.start.time) }

MainInit ==
    /\ m_pc = "start"
    /\ m_env \in [use_ortools : BOOLEAN, has_ortools : BOOLEAN]
    /\ m_ort = "not_called"
    /\ m_status = 0
    /\ m_response = <<>>

\* lines 311-314
SolveRejects(r) == r.events = <<>> \/ r.endTime <= r.start.time

\* line 316
SolveTriesOrtools(env) == env.use_ortools /\ env.has_ortools

SolveRaisePropagates(r) == [pc |-> "done", status |-> 500]

\* lines 319-320: the exception is logged and the handler goes on to line 322
SolveAfterRaise(r) == [pc |-> "stub", status |-> 0]

\* lines 311-314: HTTPException(400)
SolveReject ==
    /\ m_pc = "start"
    /\ SolveRejects(req)
    /\ m_status' = 400
    /\ m_pc' = "done"
    /\ UNCHANGED <<reqVars, notMainVars, m_env, m_ort, m_response>>

\* lines 316-318: solve_ortools returns and its response is the reply
SolveOrtoolsReturns ==
    /\ m_pc = "start"
    /\ ~SolveRejects(req)
    /\ SolveTriesOrtools(m_env)
    /\ \E out \in MainOrtoolsReturns(req, store) :
          /\ m_ort' = out.kind
          /\ m_response' = out.response
    /\ m_status' = 200
    /\ m_pc' = "done"
    /\ UNCHANGED <<reqVars, notMainVars, m_env>>

\* lines 316-320: solve_ortools raises
SolveOrtoolsRaises ==
    /\ m_pc = "start"
    /\ ~SolveRejects(req)
    /\ SolveTriesOrtools(m_env)
    /\ m_ort' = "raised"
    /\ m_pc' = SolveAfterRaise(req).pc
    /\ m_status' = SolveAfterRaise(req).status
    /\ UNCHANGED <<reqVars, notMainVars, m_env, m_response>>

\* line 322: return solve_stub(req)
SolveStub ==
    /\ \/ m_pc = "stub"
       \/ m_pc = "start" /\ ~SolveRejects(req) /\ ~SolveTriesOrtools(m_env)
    /\ m_response' = MainSolveStub(req, store)
    /\ m_status' = 200
    /\ m_pc' = "done"
    /\ UNCHANGED <<reqVars, notMainVars, m_env, m_ort>>

MainNext == SolveReject \/ SolveOrtoolsReturns \/ SolveOrtoolsRaises \/ SolveStub

InitSolve ==
    /\ req \in MainRequests
    /\ store \in MainStores
    /\ StubIdle /\ OrtIdle /\ PolyIdle /\ CacheIdle /\ DropIdle
    /\ MainInit /\ ConcIdle /\ ValIdle /\ SharedIdle

SpecSolve == InitSolve /\ [][MainNext]_vars

\* C13: when the optimal backend is not enabled, not installed, or the optimal
\* solve raises, /solve replies 200 with the greedy scheduler's response,
\* tagged solver = "stub"
SolveFallsBackToStub ==
    (m_pc = "done" /\ ~SolveRejects(req)
        /\ (~m_env.use_ortools \/ ~m_env.has_ortools \/ m_ort = "raised"))
    => /\ m_status = 200
       /\ m_response = MainSolveStub(req, store)
       /\ m_response.metrics.solver = "stub"
       /\ DOMAIN m_response = {"route", "dropped", "metrics"}

\* the optimal solve raised and the reply is a greedy route with a stop
SolveRaisedThenStubVisited ==
    /\ m_pc = "done"
    /\ m_ort = "raised"
    /\ m_status = 200
    /\ m_response.metrics.solver = "stub"
    /\ Len(m_response.route) >= 1

\* C14: when the routing backend returns no solution, the reply of /solve is
\* the greedy scheduler's response
SolveNoSolutionFallsBack ==
    (m_pc = "done" /\ m_ort = "no_solution")
    => /\ m_response = MainSolveStub(req, store)
       /\ m_response.metrics.solver = "stub"


(***************************************************************************)
(* Claims about the optimal scheduler without a solution                   *)
(***************************************************************************)
\* C15: when the backend returns no assignment, solve_ortools returns an empty
\* route, a dropped list naming every requested event exactly once with a
\* reason, and metrics with visited = 0 and dropped = the number of events
OptNoSolutionAllDropped ==
    (o_pc = "done" /\ nodes # <<>> /\ solution = <<>>)
    => /\ o_response.route = <<>>
       /\ \A i \in 1..Len(req.events) :
             Cardinality({ k \in 1..Len(o_response.dropped) :
                             o_response.dropped[k].eventId = req.events[i].id }) = 1
       /\ Len(o_response.dropped) = Len(req.events)
       /\ \A k \in 1..Len(o_response.dropped) : o_response.dropped[k].reason = "infeasible"
       /\ o_response.metrics.visited = 0
       /\ o_response.metrics.dropped = Len(req.events)

\* no assignment for a request of two events of which only one has a session
OptNoSolutionTwoEvents ==
    /\ o_pc = "done" /\ nodes # <<>> /\ solution = <<>>
    /\ Len(req.events) = 2
    /\ OrtGroupIds(nodes) = {"a"}


(***************************************************************************)
(* travel.py, cache.py: cost lookups of concurrent requests                *)
(***************************************************************************)
\* number of concurrent callers of CachedTravelProvider.travel_seconds
MaxWorkers == 2

\* the matrix service answers the question it is asked: durations and distances
\* are a function of the coordinates sent to it (travel.py:73, six decimals),
\* here those of a walk at 1400 mm/s
UpstreamMatrix(origin, destination) ==
    [status |-> "ok", has_durations |-> TRUE,
     duration_ms |-> (haversine_m(origin, destination) * 1000) \div 1400,
     has_distances |-> TRUE, distance_mm |-> haversine_m(origin, destination)]

\* everything the concurrent callers leave alone
outsideConc == <<reqVars, stubVars, ortVars, polyVars, dropVars, mainVars, valVars,
                 sharedVars, clock, ttl, directions_cache, lookups>>

ConcInit ==
    /\ workers \in [1..MaxWorkers ->
                      [pc : {"get"}, origin : CacheOrigins, destination : CacheDestinations,
                       seconds : {0}, has_distance : {FALSE}, distanceM : {0},
                       cached : {FALSE}, fallback : {FALSE},
                       provider_calls : {0}, provider_raised : {FALSE},
                       fallback_calls : {0}]]
    /\ writes = {}

\* travel.py:143-151: the key is built and the cache read; repo.get is called
\* outside the try block, so when it raises (the database cannot be reached)
\* travel_seconds raises
WorkerGet(w, fails) ==
    /\ workers[w].pc = "get"
    /\ LET me == workers[w]
           hit == CacheGet(matrix_cache,
                           MatrixKey("mapbox", "walk", me.origin, me.destination, ""), clock)
       IN  IF fails
           THEN workers' = [workers EXCEPT ![w].pc = "raised"]
           ELSE IF hit # {}
           THEN LET row == CHOOSE r \in hit : TRUE
                IN  workers' = [workers EXCEPT ![w] =
                       [me EXCEPT !.pc = "done", !.cached = TRUE,
                                  !.seconds = row.duration_sec,
                                  !.has_distance = row.has_distance,
                                  !.distanceM = row.distance_m]]
           ELSE workers' = [workers EXCEPT ![w].pc = "call"]
    /\ UNCHANGED <<outsideConc, matrix_cache, writes>>

\* travel.py:157-160: the except branch, the straight-line fallback answers
WorkerFallsBack(me) ==
    [me EXCEPT !.pc = "done", !.fallback = TRUE,
               !.fallback_calls = me.fallback_calls + 1,
               !.seconds = FallbackTravel(me.origin, me.destination).seconds,
               !.has_distance = TRUE,
               !.distanceM = FallbackTravel(me.origin, me.destination).distanceM]

WorkerCallRetrying(w, fails) ==
    /\ workers[w].pc = "call"
    /\ LET me == [workers[w] EXCEPT !.provider_calls = workers[w].provider_calls + 1]
           got == MapboxTravelSeconds(UpstreamMatrix(me.origin, me.destination))
       IN  IF fails
           THEN workers' = [workers EXCEPT ![w] =
                   IF me.provider_calls < 2 THEN me
                   ELSE WorkerFallsBack([me EXCEPT !.provider_raised = TRUE])]
           ELSE workers' = [workers EXCEPT ![w] =
                   [me EXCEPT !.pc = "store", !.seconds = got.seconds,
                              !.has_distance = got.has_distance,
                              !.distanceM = got.distanceM]]
    /\ UNCHANGED <<outsideConc, matrix_cache, writes>>

\* travel.py:153-154 and 157-160: the provider is called; it answers, or it
\* fails and the straight-line fallback answers instead
WorkerCall(w, fails) ==
    /\ workers[w].pc = "call"
    /\ LET me == [workers[w] EXCEPT !.provider_calls = workers[w].provider_calls + 1]
           got == MapboxTravelSeconds(UpstreamMatrix(me.origin, me.destination))
       IN  IF fails
           THEN workers' = [workers EXCEPT ![w] =
                   WorkerFallsBack([me EXCEPT !.provider_raised = TRUE])]
           ELSE workers' = [workers EXCEPT ![w] =
                   [me EXCEPT !.pc = "store", !.seconds = got.seconds,
                              !.has_distance = got.has_distance,
                              !.distanceM = got.distanceM]]
    /\ UNCHANGED <<outsideConc, matrix_cache, writes>>

\* travel.py:155-156 and MatrixCacheRepository.store: the upsert; repo.store is
\* called inside the try block, so when it raises nothing is written and the
\* except branch answers with the fallback
WorkerStore(w, fails) ==
    /\ workers[w].pc = "store"
    /\ LET me == workers[w]
           row == MatrixRow(me.origin, me.destination, clock, ttl.matrix, me)
       IN  IF fails
           THEN /\ workers' = [workers EXCEPT ![w] = WorkerFallsBack(me)]
                /\ UNCHANGED <<matrix_cache, writes>>
           ELSE /\ matrix_cache' = CacheStore(matrix_cache, row)
                /\ writes' = writes \cup { [cache_key |-> row.cache_key,
                                            duration_sec |-> row.duration_sec,
                                            distance_m |-> row.distance_m] }
                /\ workers' = [workers EXCEPT ![w].pc = "done"]
    /\ UNCHANGED outsideConc

ConcNext ==
    \E w \in 1..MaxWorkers, fails \in BOOLEAN :
        \/ WorkerGet(w, fails)
        \/ WorkerCall(w, fails)
        \/ WorkerStore(w, fails)

InitConc ==
    /\ ReqIdle /\ StubIdle /\ OrtIdle /\ PolyIdle /\ DropIdle /\ MainIdle /\ CacheIdle
    /\ ConcInit /\ ValIdle /\ SharedIdle

SpecConc == InitConc /\ [][ConcNext]_vars

\* C16: however concurrent cost lookups interleave, all writers of one cache
\* key store the same value, so the row under a key does not depend on whose
\* upsert lands last
ConcWritersAgree ==
    \A v1, v2 \in writes :
        v1.cache_key = v2.cache_key =>
            v1.duration_sec = v2.duration_sec /\ v1.distance_m = v2.distance_m


(***************************************************************************)
(* Claims about the drop penalty                                           *)
(***************************************************************************)
\* the tours of the assignments the submitted model admits
FeasibleTours ==
    { sol.tour : sol \in BackendSolutions(nodes, travel_matrix, cfg.slack_max, Horizon(req)) }

\* sum of the arc costs (the transit values, line 209) along depot -> tour -> sink
RECURSIVE ArcCostFrom(_, _)
ArcCostFrom(from, rest) ==
    IF rest = <<>> THEN transit_cb(nodes, travel_matrix, from, Len(nodes))
    ELSE transit_cb(nodes, travel_matrix, from, Head(rest)) + ArcCostFrom(Head(rest), Tail(rest))

ArcCost(tour) == ArcCostFrom(1, tour)

VisitedEvents(tour) == { nodes[tour[k]].event_id : k \in 1..Len(tour) }

\* arc costs plus one penalty for every group without a visited node
TourCost(tour) ==
    ArcCost(tour) + cfg.drop_penalty * Cardinality(OrtGroupIds(nodes) \ VisitedEvents(tour))

\* C17: with the default penalty max(3000, 4 * horizon), the penalty of one
\* unvisited event exceeds the total arc cost of every tour the time constraints
\* admit, and a tour that visits more events than another always costs less
OptPenaltyDominates ==
    o_pc = "model" =>
      /\ \A t \in FeasibleTours : cfg.drop_penalty > ArcCost(t)
      /\ \A t1, t2 \in FeasibleTours :
            (VisitedEvents(t1) \subseteq VisitedEvents(t2)
                /\ VisitedEvents(t1) # VisitedEvents(t2))
            => TourCost(t2) < TourCost(t1)

\* the model admits a tour through both events and a tour through one of them
OptTourWithAndWithoutEvent ==
    /\ o_pc = "model"
    /\ \E t1, t2 \in FeasibleTours :
          /\ VisitedEvents(t2) = {"a", "b"}
          /\ Cardinality(VisitedEvents(t1)) = 1
          /\ ArcCost(t1) < ArcCost(t2)


(***************************************************************************)
(* schemas.py: construction of a SolveRequest, then a scheduler call        *)
(***************************************************************************)
\* largest number of session rows of the store behind a constructed request
MaxValidateRows == 1

\* constructor arguments: end times after, at and before the start time; event
\* lists that are empty, repeat an id, or carry a dwell below 1 (-1); a speed
\* at the excluded lower limit of 0.05 m/s
RawRequests ==
    UNION { [start : [lat : StartPositions, time : StartTimes],
             endTime : EndTimes \cup StartTimes \cup {300},
             events : { evs \in [1..Len(ids) ->
                                   [id : EventIds, dwell_min : DwellChoices \cup {-1}]] :
                          \A i \in 1..Len(ids) : evs[i].id = ids[i] },
             walkingSpeed : Speeds \cup {50},
             compressDwellToMin : BOOLEAN] : ids \in UNION { [1..n -> EventIds] : n \in 0..2 } }

\* the fields whose validation fails: Field constraints (lines 18, 24, 25)
\* and the two validators
ValidationErrors(args) ==
    { f \in {"endTime", "events", "walkingSpeed", "dwell_min"} :
        \/ f = "endTime" /\ ~validate_end_after_start(args.endTime, args.start)
        \/ f = "events" /\ (Len(args.events) > 24 \/ ~validate_events(args.events))
        \/ f = "walkingSpeed" /\ ~(args.walkingSpeed > 50 /\ args.walkingSpeed <= 3000)
        \/ f = "dwell_min" /\ \E i \in 1..Len(args.events) :
                                 args.events[i].dwell_min # 0 /\ args.events[i].dwell_min < 1 }

ValInit ==
    /\ raw \in RawRequests
    /\ v_pc = "construct"
    /\ v_error = {}

\* SolveRequest(**raw) raises ValidationError
ConstructRejects ==
    /\ v_pc = "construct"
    /\ ValidationErrors(raw) # {}
    /\ v_error' = ValidationErrors(raw)
    /\ v_pc' = "rejected"
    /\ UNCHANGED <<reqVars, stubVars, ortVars, notValVars, raw>>

\* SolveRequest(**raw) returns the request, which is handed to solve_stub
ConstructThenStub ==
    /\ v_pc = "construct"
    /\ ValidationErrors(raw) = {}
    /\ req' = raw
    /\ v_pc' = "accepted"
    /\ pc' = "start"
    /\ UNCHANGED <<store, rows, ev_idx, curr_time, curr_pos, total_walk, route, dropped,
                   response, ortVars, notValVars, raw, v_error>>

\* SolveRequest(**raw) returns the request, which is handed to solve_ortools
ConstructThenOrtools ==
    /\ v_pc = "construct"
    /\ ValidationErrors(raw) = {}
    /\ req' = raw
    /\ v_pc' = "accepted"
    /\ o_pc' = "start"
    /\ cfg' \in SolverConfigs
    /\ UNCHANGED <<store, stubVars, o_rows, nodes, travel_matrix, transit, solution, o_response,
                   notValVars, raw, v_error>>

ValNext == ConstructRejects \/ ConstructThenStub \/ ConstructThenOrtools \/ StubNext \/ OrtNext

InitValidate ==
    /\ req = [start |-> [lat |-> 0, time |-> 0], endTime |-> 0, events |-> <<>>,
              walkingSpeed |-> 0, compressDwellToMin |-> FALSE]
    /\ store \in { S \in SUBSET AllRows : Cardinality(S) <= MaxValidateRows }
    /\ StubIdle /\ OrtIdle /\ PolyIdle /\ CacheIdle /\ DropIdle /\ MainIdle /\ ConcIdle
    /\ SharedIdle
    /\ ValInit

SpecValidate == InitValidate /\ [][ValNext]_vars

\* no scheduler has started and no request object exists
NothingScheduled ==
    /\ pc = "idle" /\ o_pc = "idle"
    /\ rows = <<>> /\ o_rows = <<>> /\ nodes = <<>>
    /\ req.events = <<>>

\* C18: constructor arguments that repeat an event id are rejected with a
\* validation error on events; no request is built from them (with or without
\* the repeated entry) and no scheduler or graph build ever starts
DuplicateIdsRejected ==
    (v_pc # "idle" /\ \E i, j \in 1..Len(raw.events) :
                         i # j /\ raw.events[i].id = raw.events[j].id)
    => /\ NothingScheduled
       /\ v_pc = "construct" \/ (v_pc = "rejected" /\ "events" \in v_error)

\* arguments wrong only in repeating an id were rejected
DuplicateIdsAloneRejected ==
    /\ v_pc = "rejected"
    /\ v_error = {"events"}
    /\ Len(raw.events) = 2
    /\ raw.events[1].id = raw.events[2].id

\* C19: constructor arguments whose endTime is not strictly after start.time
\* are rejected with a validation error on endTime, and no scheduler or graph
\* build ever starts
EndNotAfterStartRejected ==
    (v_pc # "idle" /\ raw.endTime <= raw.start.time)
    => /\ NothingScheduled
       /\ v_pc = "construct" \/ (v_pc = "rejected" /\ "endTime" \in v_error)

\* arguments wrong only in an endTime equal to start.time were rejected
EndEqualToStartRejected ==
    /\ v_pc = "rejected"
    /\ v_error = {"endTime"}
    /\ raw.endTime = raw.start.time


(***************************************************************************)
(* Claims about the session the greedy scheduler accepts                   *)
(***************************************************************************)
\* the acceptance test of session row r for a dwell, at the traveller's current
\* time and position
PassesAt(r, dwell_sec, now, pos) ==
    LET walk == (Abs(r.lat - pos) * MmPerMicroDeg) \div req.walkingSpeed
        arrival == IF now + walk >= r.start_ts THEN now + walk ELSE r.start_ts
    IN  arrival + dwell_sec <= r.end_ts /\ arrival + dwell_sec <= req.endTime

\* C20: in every iteration of the greedy loop, an accepted session passes the
\* acceptance test at the current time and position and no session of the event
\* that passes it starts earlier; the event is dropped only if none passes
StubEarliestAcceptable ==
    [][ (pc = "loop" /\ ev_idx' = ev_idx + 1) =>
          LET ev == req.events[ev_idx].id
              mine == { rows[i] : i \in { j \in 1..Len(rows) : rows[j].event_id = ev } }
              dwell_sec == StubDwellSec(req, rows, ev)
          IN  /\ Len(route') = Len(route) + 1 =>
                   LET stop == route'[Len(route')]
                   IN  /\ stop.eventId = ev
                       /\ \E r \in mine : /\ r.start_ts = stop.sessionStart
                                          /\ r.end_ts = stop.sessionEnd
                                          /\ PassesAt(r, dwell_sec, curr_time, curr_pos)
                       /\ \A r \in mine : PassesAt(r, dwell_sec, curr_time, curr_pos)
                                            => r.start_ts >= stop.sessionStart
              /\ Len(route') = Len(route) =>
                   /\ Len(dropped') = Len(dropped) + 1
                   /\ \A r \in mine : ~PassesAt(r, dwell_sec, curr_time, curr_pos)
      ]_vars

\* the greedy route holds a stop at a session starting at 1500 s of an event that
\* also has an earlier-starting session and a second session starting at 1500 s
StubSkippedFailingSession ==
    /\ pc = "done"
    /\ \E k \in 1..Len(response.route) :
          /\ response.route[k].sessionStart = 1500
          /\ \E i, j \in 1..Len(rows) :
                /\ rows[i].event_id = response.route[k].eventId
                /\ rows[i].start_ts < 1500
                /\ rows[j].event_id = response.route[k].eventId
                /\ rows[j].start_ts = 1500 /\ rows[j].end_ts # response.route[k].sessionEnd

(***************************************************************************)
(* C21: when the greedy scheduler drops an event, the step leaves the      *)
(* current time and the current position as they were (and with them the   *)
(* route and the walked total), so the next event is evaluated from the    *)
(* state the dropped event was evaluated from.                             *)
(***************************************************************************)
StubDropKeepsState ==
    [][(pc = "loop" /\ Len(dropped') = Len(dropped) + 1)
          => /\ curr_time' = curr_time
             /\ curr_pos' = curr_pos
             /\ route' = route
             /\ total_walk' = total_walk]_vars

\* after a stop, an event was dropped having had a session attempted
StubDroppedAfterStop ==
    /\ pc = "loop"
    /\ Len(route) = 1
    /\ Len(dropped) = 1
    /\ ev_idx = 3
    /\ route[1].eventId = req.events[1].id
    /\ dropped[1].attempts # <<>>
    /\ curr_time = route[1].depart
    /\ curr_pos = route[1].lat

(***************************************************************************)
(* C22: the greedy scheduler never backtracks: the route after every step  *)
(* starts with the route before it, unchanged, and the route returned is   *)
(* the route built, so the route after each event is a prefix of the       *)
(* final route.                                                            *)
(***************************************************************************)
IsPrefix(p, q) == Len(p) <= Len(q) /\ SubSeq(q, 1, Len(p)) = p

StubNeverBacktracks ==
    [][/\ IsPrefix(route, route')
       /\ (pc' = "done" /\ rows' # <<>>) => response'.route = route']_vars

\* the first event was accepted and stays in the route while the second,
\* evaluated after it, finds no feasible session
StubEarlierStopBlocksLater ==
    /\ pc = "done"
    /\ Len(req.events) = 2
    /\ Len(response.route) = 1
    /\ response.route[1].eventId = req.events[1].id
    /\ Len(response.dropped) = 1
    /\ response.dropped[1].reason = "no_feasible_session_within_windows"

(***************************************************************************)
(* C23: the greedy scheduler handles each requested event once, in the     *)
(* order of the request: after i-1 iterations exactly i-1 events are in    *)
(* the route or the dropped list, and the event ids of the route, and of   *)
(* the dropped list, each form a subsequence of the request's event list.  *)
(***************************************************************************)
PositionIn(evs, id) == CHOOSE i \in 1..Len(evs) : evs[i].id = id

IdsInRequestOrder(items, evs) ==
    /\ \A k \in 1..Len(items) : \E i \in 1..Len(evs) : evs[i].id = items[k].eventId
    /\ \A k \in 1..Len(items) - 1 :
          PositionIn(evs, items[k].eventId) < PositionIn(evs, items[k + 1].eventId)

StubRequestOrder ==
    /\ pc = "loop" =>
          /\ ev_idx <= Len(req.events) + 1
          /\ Len(route) + Len(dropped) = ev_idx - 1
          /\ IdsInRequestOrder(route, req.events)
          /\ IdsInRequestOrder(dropped, req.events)
    /\ pc = "done" =>
          /\ IdsInRequestOrder(response.route, req.events)
          /\ IdsInRequestOrder(response.dropped, req.events)

\* two stops returned, in the order of the request
StubRouteInRequestOrder ==
    /\ pc = "done"
    /\ Len(req.events) = 2
    /\ Len(response.route) = 2
    /\ response.route[1].eventId = req.events[1].id
    /\ response.route[2].eventId = req.events[2].id

(***************************************************************************)
(* C24: when the candidate set is not empty, the response of either        *)
(* scheduler lists every requested event id exactly once across route and  *)
(* dropped, lists no other id, and metrics.visited + metrics.dropped is    *)
(* the number of requested events.                                         *)
(***************************************************************************)
Occurrences(items, id) == Cardinality({ k \in 1..Len(items) : items[k].eventId = id })

ResponsePartitionsEvents(resp, evs) ==
    /\ \A i \in 1..Len(evs) :
          Occurrences(resp.route, evs[i].id) + Occurrences(resp.dropped, evs[i].id) = 1
    /\ Len(resp.route) + Len(resp.dropped) = Len(evs)
    /\ resp.metrics.visited = Len(resp.route)
    /\ resp.metrics.dropped = Len(resp.dropped)
    /\ resp.metrics.visited + resp.metrics.dropped = Len(evs)

EveryEventAccountedFor ==
    /\ (pc = "done" /\ rows # <<>>) => ResponsePartitionsEvents(response, req.events)
    /\ (o_pc = "done" /\ o_rows # <<>>) => ResponsePartitionsEvents(o_response, req.events)

\* a translated tour visiting one event while the other, without any
\* candidate session, is listed as dropped
OptOneVisitedOneWithoutNodes ==
    /\ o_pc = "done"
    /\ o_rows # <<>>
    /\ Len(req.events) = 2
    /\ Len(o_response.route) = 1
    /\ Len(o_response.dropped) = 1
    /\ o_response.dropped[1].eventId \notin OrtGroupIds(nodes)

(***************************************************************************)
(* C25, as stated: every session node of the optimal scheduler's graph has *)
(* the window [max(0, start_offset), max(window_start, end_offset -        *)
(* dwell_seconds)], the offsets being the session's start and end minus    *)
(* the trip start.                                                         *)
(***************************************************************************)
SessionNodes == { i \in 1..Len(nodes) : nodes[i].event_id # "" }

StartOffset(n) == n.session_start - req.start.time
EndOffset(n) == n.session_end - req.start.time

OptWindowAsStated ==
    \A i \in SessionNodes :
        /\ nodes[i].tw_start = Max(0, StartOffset(nodes[i]))
        /\ nodes[i].tw_end = Max(nodes[i].tw_start,
                                 EndOffset(nodes[i]) - nodes[i].service_sec)

(***************************************************************************)
(* C25, amended: every session node has the window                         *)
(* [max(0, start_offset), max(window_start, min(horizon, end_offset -      *)
(* dwell_seconds))]: the latest start is capped at the horizon before it   *)
(* is clamped to the window start.                                         *)
(***************************************************************************)
OptWindowCappedAtHorizon ==
    \A i \in SessionNodes :
        /\ nodes[i].tw_start = Max(0, StartOffset(nodes[i]))
        /\ nodes[i].tw_end = Max(nodes[i].tw_start,
                                 Min(Horizon(req),
                                     EndOffset(nodes[i]) - nodes[i].service_sec))

\* a session that starts within the trip and could still be begun after the
\* trip has ended: its window ends at the horizon
OptWindowCutByHorizon ==
    \E i \in SessionNodes :
        /\ StartOffset(nodes[i]) < Horizon(req)
        /\ EndOffset(nodes[i]) - nodes[i].service_sec > Horizon(req)
        /\ nodes[i].tw_end = Horizon(req)

(***************************************************************************)
(* C26: when the request gives an event no dwell override and does not set *)
(* compressDwellToMin, the dwell of the event's greedy stop and the        *)
(* service duration of its nodes in the optimal graph are the event's      *)
(* minimum dwell times 60.                                                 *)
(***************************************************************************)
WithoutOverride(id) ==
    /\ ~req.compressDwellToMin
    /\ \E i \in 1..Len(req.events) : req.events[i].id = id /\ req.events[i].dwell_min = 0

NoOverrideDwellIsMinimum ==
    /\ \A k \in 1..Len(route) :
          WithoutOverride(route[k].eventId)
             => route[k].dwellSec = 60 * EventMinimum(route[k].eventId)
    /\ \A i \in SessionNodes :
          WithoutOverride(nodes[i].event_id)
             => nodes[i].service_sec = 60 * EventMinimum(nodes[i].event_id)

(***************************************************************************)
(* C27: the dwell resolved for a session is at least 60 seconds, whatever  *)
(* the override, the event minimum and compressDwellToMin: in every greedy *)
(* stop and every greedy attempt (depart - arrival), and in the service    *)
(* duration of every session node and every stop of the optimal scheduler. *)
(***************************************************************************)
DwellAtLeastSixtySeconds ==
    /\ \A k \in 1..Len(route) : route[k].dwellSec >= 60
    /\ \A d \in 1..Len(dropped) :
          \A t \in 1..Len(dropped[d].attempts) :
              dropped[d].attempts[t].depart - dropped[d].attempts[t].arrival >= 60
    /\ \A i \in SessionNodes : nodes[i].service_sec >= 60
    /\ o_pc = "done" =>
          \A k \in 1..Len(o_response.route) : o_response.route[k].dwellSec >= 60

\* dwell compressed to the minimum of an event whose stored minimum is unset:
\* the greedy stop and the graph node of "b" get the default of 15 minutes
CompressedToUnsetMinimum ==
    /\ req.compressDwellToMin
    /\ \/ \E k \in 1..Len(route) : route[k].eventId = "b" /\ route[k].dwellSec = 900
       \/ \E i \in SessionNodes : nodes[i].event_id = "b" /\ nodes[i].service_sec = 900

(***************************************************************************)
(* C28: summarise_drop_reason decides in this order of priority:           *)
(* no_sessions_for_date when the group has no windows; else                *)
(* time_window_conflict when every window has end <= start; else           *)
(* beyond_trip_horizon when every window starts at or beyond the horizon;  *)
(* else dropped_by_solver.  A group that meets two of the conditions gets  *)
(* the reason of the earlier one.                                          *)
(***************************************************************************)
AllDegenerate(tws) == \A i \in 1..Len(tws) : tws[i].end <= tws[i].start
AllBeyond(tws, horizon) == \A i \in 1..Len(tws) : tws[i].start >= horizon

DropReasonPriority ==
    \A r \in d_seen :
        /\ d_tws = <<>> => r.reason = "no_sessions_for_date"
        /\ (d_tws # <<>> /\ AllDegenerate(d_tws)) => r.reason = "time_window_conflict"
        /\ (d_tws # <<>> /\ ~AllDegenerate(d_tws) /\ AllBeyond(d_tws, d_horizon))
              => r.reason = "beyond_trip_horizon"
        /\ (d_tws # <<>> /\ ~AllDegenerate(d_tws) /\ ~AllBeyond(d_tws, d_horizon))
              => r.reason = "dropped_by_solver"

\* a group whose windows are all collapsed and all beyond the horizon was
\* classified: the earlier condition decides
DropReasonConflictBeforeHorizon ==
    /\ Len(d_tws) = 2
    /\ AllDegenerate(d_tws)
    /\ AllBeyond(d_tws, d_horizon)
    /\ \E r \in d_seen : r.reason = "time_window_conflict"

(***************************************************************************)
(* C29: in the response translated from a tour of the optimal scheduler,   *)
(* an unvisited event that has candidate sessions, all of them starting at *)
(* or after the trip end, is reported with reason beyond_trip_horizon.     *)
(***************************************************************************)
AllSessionsAfterTripEnd(id) ==
    /\ \E i \in SessionNodes : nodes[i].event_id = id
    /\ \A i \in SessionNodes :
          nodes[i].event_id = id => nodes[i].session_start >= req.endTime

OptBeyondHorizonReported ==
    (o_pc = "done" /\ solution # <<>>)
    => \A k \in 1..Len(o_response.dropped) :
          AllSessionsAfterTripEnd(o_response.dropped[k].eventId)
             => o_response.dropped[k].reason = "beyond_trip_horizon"

(***************************************************************************)
(* C30: every stop of an optimal itinerary is reached no earlier than the  *)
(* previous stop's departure (the trip start for the first stop) plus      *)
(* travelSecFromPrev and no earlier than its window start (the session     *)
(* start, or the trip start when the session began before it), and the     *)
(* waiting time arrive - (previous departure + travelSecFromPrev) is at    *)
(* most the configured slack cap.                                          *)
(***************************************************************************)
PreviousDeparture(rt, k) == IF k = 1 THEN req.start.time ELSE rt[k - 1].depart

Waiting(rt, k) == rt[k].arrive - (PreviousDeparture(rt, k) + rt[k].travelSecFromPrev)

OptArrivalAndWaiting ==
    o_pc = "done" =>
        \A k \in 1..Len(o_response.route) :
            /\ Waiting(o_response.route, k) >= 0
            /\ o_response.route[k].arrive >= o_response.route[k].sessionStart
            /\ o_response.route[k].arrive >= req.start.time
            /\ Waiting(o_response.route, k) <= cfg.slack_max

\* a stop reached after waiting the whole of a slack cap of 300 seconds, and
\* one reached after waiting longer under the default cap
OptWaitsWithinCap ==
    /\ o_pc = "done"
    /\ \E k \in 1..Len(o_response.route) :
          \/ cfg.slack_max = 300 /\ Waiting(o_response.route, k) = 300
          \/ cfg.slack_max = DefaultSlackMax /\ Waiting(o_response.route, k) > 300

(***************************************************************************)
(* C31, as stated: in the routing model the optimal scheduler submits, the *)
(* transit of every arc i -> j is the service time of the destination node *)
(* j plus the travel time from i to j.                                     *)
(***************************************************************************)
OptTransitOfDestination ==
    \A i, j \in 1..Len(transit) :
        transit[i][j] = nodes[j].service_sec + travel_matrix[i][j]

(***************************************************************************)
(* C31, amended: the transit of every arc i -> j is the service time of    *)
(* the source node i plus the travel time from i to j, so that the         *)
(* cumulative time of a node is the time of arrival at it.                 *)
(***************************************************************************)
OptTransitOfSource ==
    /\ Len(transit) = Len(nodes)
    /\ \A i, j \in 1..Len(transit) :
          transit[i][j] = nodes[i].service_sec + travel_matrix[i][j]

\* a submitted model with an arc between two session nodes of different
\* service times
OptArcBetweenUnequalServices ==
    /\ o_pc = "model"
    /\ \E i, j \in SessionNodes :
          /\ nodes[i].service_sec # nodes[j].service_sec
          /\ transit[i][j] = nodes[i].service_sec + travel_matrix[i][j]

(***************************************************************************)
(* C32: a lookup that finds an entry for its key that has not expired      *)
(* returns that entry's value tagged cached = true, calls neither the      *)
(* wrapped provider nor the fallback, and writes nothing to either cache.  *)
(***************************************************************************)
KeyOfLookup(l) ==
    IF l.kind = "travel" THEN MatrixKey("mapbox", "walk", l.origin, l.destination, "")
    ELSE DirectionsKey("mapbox", "walk", l.origin, l.destination)

\* the entries of the lookup's table a lookup of l's key can use at time now
LiveEntries(l, now) ==
    { row \in (IF l.kind = "travel" THEN matrix_cache ELSE directions_cache) :
         row.cache_key = KeyOfLookup(l) /\ row.expires_at > now }

CacheHitTouchesNothing ==
    [][Len(lookups') = Len(lookups) + 1 =>
         LET l == lookups'[Len(lookups')]
         IN  LiveEntries(l, clock) # {} =>
               /\ l.outcome = "returned"
               /\ l.cached
               /\ ~l.provider_called
               /\ ~l.fallback
               /\ ~l.stored
               /\ \E row \in LiveEntries(l, clock) :
                     /\ l.seconds = row.duration_sec
                     /\ l.distanceM = row.distance_m
                     /\ l.kind = "directions" => l.polyline = row.polyline
               /\ matrix_cache' = matrix_cache
               /\ directions_cache' = directions_cache]_vars

\* the second of two cost lookups was a hit, made after the clock had moved on
CostLookupHit ==
    /\ Len(lookups) = 2
    /\ lookups[1].kind = "travel" /\ lookups[1].stored
    /\ lookups[2].kind = "travel" /\ lookups[2].cached
    /\ lookups[2].at > lookups[1].at

(***************************************************************************)
(* C33: a lookup is answered from the cache only by an entry of its key    *)
(* whose expiry is later than the current time; with no entry, or only an  *)
(* entry expiring at or before the current time, it is a miss; and every   *)
(* store leaves one row for the key, expiring at the store time plus the   *)
(* repository's TTL (24 hours for costs, 7 days for geometry by default).  *)
(***************************************************************************)
TtlSeconds(l) == (IF l.kind = "travel" THEN ttl.matrix ELSE ttl.directions) * 60

TableAfter(l) == IF l.kind = "travel" THEN matrix_cache' ELSE directions_cache'

CacheExpiry ==
    [][Len(lookups') = Len(lookups) + 1 =>
         LET l == lookups'[Len(lookups')]
             mine == { row \in TableAfter(l) : row.cache_key = KeyOfLookup(l) }
         IN  /\ l.cached => \E row \in LiveEntries(l, clock) : row.expires_at > l.at
             /\ LiveEntries(l, clock) = {} => ~l.cached /\ l.provider_called
             /\ l.stored =>
                   /\ Cardinality(mine) = 1
                   /\ \A row \in mine : row.expires_at = l.at + TtlSeconds(l)
                   /\ (l.kind = "travel" /\ ttl.matrix = 1440)
                         => \A row \in mine : row.expires_at - l.at = 24 * 3600
                   /\ (l.kind = "directions" /\ ttl.directions = 10080)
                         => \A row \in mine : row.expires_at - l.at = 7 * 24 * 3600]_vars

\* an entry stored with a TTL of one minute is looked up again exactly at its
\* expiry: the lookup is a miss and the provider is asked again
LookupAtExpiryMisses ==
    /\ Len(lookups) = 2
    /\ lookups[1].kind = lookups[2].kind
    /\ KeyOfLookup(lookups[1]) = KeyOfLookup(lookups[2])
    /\ lookups[1].stored
    /\ lookups[2].at = lookups[1].at + TtlSeconds(lookups[1])
    /\ ~lookups[2].cached
    /\ lookups[2].provider_called

(***************************************************************************)
(* C34: two lookups of one kind (same provider name, mode and bucket) use  *)
(* the same cache key if and only if their origins and their destinations  *)
(* agree after rounding to 4 decimal places (5 for geometry lookups).      *)
(***************************************************************************)
RoundingUnit(l) == IF l.kind = "travel" THEN 100 ELSE 10

AgreeAfterRounding(l1, l2) ==
    /\ RoundTo(l1.origin, RoundingUnit(l1)) = RoundTo(l2.origin, RoundingUnit(l2))
    /\ RoundTo(l1.destination, RoundingUnit(l1)) = RoundTo(l2.destination, RoundingUnit(l2))

SameKeyIffRoundedEqual ==
    \A i, j \in 1..Len(lookups) :
        lookups[i].kind = lookups[j].kind =>
            (KeyOfLookup(lookups[i]) = KeyOfLookup(lookups[j])
                <=> AgreeAfterRounding(lookups[i], lookups[j]))

(***************************************************************************)
(* C35: within one lookup the wrapped provider is called at most once and  *)
(* never again after it failed; when it fails the fallback is called       *)
(* exactly once, in the same step, and the lookup returns the fallback's   *)
(* result.                                                                 *)
(***************************************************************************)
NoRetry ==
    \A w \in 1..MaxWorkers :
        LET me == workers[w]
        IN  /\ me.provider_calls <= 1
            /\ me.fallback_calls <= 1
            /\ me.provider_raised =>
                  /\ me.pc = "done"
                  /\ me.provider_calls = 1
                  /\ me.fallback_calls = 1
                  /\ me.fallback
                  /\ me.seconds = FallbackTravel(me.origin, me.destination).seconds
                  /\ me.distanceM = FallbackTravel(me.origin, me.destination).distanceM

\* one caller's provider failed and the fallback answered, while the other
\* caller's provider answered and its result was stored
OneFellBackOneStored ==
    /\ \E w \in 1..MaxWorkers :
          workers[w].provider_raised /\ workers[w].fallback_calls = 1
    /\ \E w \in 1..MaxWorkers :
          /\ workers[w].pc = "done" /\ workers[w].provider_calls = 1
          /\ ~workers[w].fallback

(***************************************************************************)
(* C36: a lookup whose wrapped provider raises leaves both caches as they  *)
(* were, so the fallback's result is never stored: after any sequence of   *)
(* lookups every cache row holds what a successful call of the wrapped     *)
(* provider returned.                                                      *)
(***************************************************************************)
ProviderSeconds ==
    { MapboxTravelSeconds(resp).seconds :
        resp \in { r \in MatrixResponses : ~MapboxTravelSeconds(r).raised } }

ProviderPolylines ==
    { MapboxDirections(resp).polyline :
        resp \in { r \in DirectionsResponses : ~MapboxDirections(r).raised } }

FallbackNeverStored ==
    [][Len(lookups') = Len(lookups) + 1 =>
         LET l == lookups'[Len(lookups')]
         IN  /\ l.provider_raised =>
                   /\ ~l.stored
                   /\ matrix_cache' = matrix_cache
                   /\ directions_cache' = directions_cache
             /\ \A row \in matrix_cache' : row.duration_sec \in ProviderSeconds
             /\ \A row \in directions_cache' : row.polyline \in ProviderPolylines]_vars

\* after a stored answer of the provider, a cost lookup of another key falls
\* back and the cache still holds the one row
FallbackAfterStoredAnswer ==
    /\ Len(lookups) = 2
    /\ lookups[1].kind = "travel" /\ lookups[1].stored
    /\ lookups[2].kind = "travel" /\ lookups[2].provider_raised /\ lookups[2].fallback
    /\ KeyOfLookup(lookups[1]) # KeyOfLookup(lookups[2])
    /\ Cardinality(matrix_cache) = 1

(***************************************************************************)
(* C37: when the caching cost provider falls back to the straight line     *)
(* during a solve, the seconds returned are the distance divided by        *)
(* max(speed, 0.05 m/s) for the walking speed of the request being solved. *)
(***************************************************************************)
FallbackUsesRequestSpeed ==
    \A i \in 1..Len(lookups) :
        LET l == lookups[i]
        IN  (l.kind = "travel" /\ l.fallback) =>
               l.seconds = haversine_m(l.origin, l.destination)
                              \div Max(l.walking_speed, MinSpeed)

(***************************************************************************)
(* C38: a cost lookup through the caching provider returns a travel cost   *)
(* whichever of its collaborators fail: it never ends by raising, be it    *)
(* the cache read, the wrapped provider or the cache write that failed.    *)
(***************************************************************************)
CostLookupNeverRaises ==
    \A w \in 1..MaxWorkers : workers[w].pc # "raised"


(***************************************************************************)
(* Several calls of solve_ortools in one process.  The calls interleave at *)
(* the statements that touch what they share: the module global            *)
(* _LAST_DEBUG and a SolverConfig object the caller passes to more than    *)
(* one call.                                                               *)
(***************************************************************************)
MaxCalls == 2

\* trip lengths of the calls, in seconds
SharedHorizons == {600, 2400}

\* drop_penalty of the SolverConfig the caller built: 0 is None (left unset)
CallerPenalties == {0, 5000}

notSharedVars == <<reqVars, stubVars, ortVars, polyVars, cacheVars, dropVars, mainVars,
                   concVars, valVars>>

\* line 42: _LAST_DEBUG starts empty (owner 0: no call has written it)
SharedInit ==
    /\ dbg = [owner |-> 0, dropPenalty |-> 0, horizonSec |-> 0]
    /\ conf \in [drop_penalty : CallerPenalties, slack_max : {DefaultSlackMax}]
    /\ calls \in [1..MaxCalls ->
                    [pc : {"start"}, horizon : SharedHorizons, config : {"none", "shared"},
                     own : [drop_penalty : {0}, slack_max : {DefaultSlackMax}],
                     left_unset : BOOLEAN, used_penalty : {0}, saw : {0}]]
    /\ \A c \in 1..MaxCalls :
          calls[c].left_unset = (calls[c].config = "none" \/ conf.drop_penalty = 0)

\* line 79, cfg = config or SolverConfig(): the object the call works on
CfgOf(c) == IF calls[c].config = "shared" THEN conf ELSE calls[c].own

\* lines 165-166: an unset penalty is written into cfg, which is the caller's
\* object when one was passed
CallDefaultPenalty(c) ==
    /\ calls[c].pc = "start"
    /\ LET set == [CfgOf(c) EXCEPT !.drop_penalty = OrtDropPenalty(CfgOf(c), calls[c].horizon)]
       IN  IF calls[c].config = "shared"
           THEN /\ conf' = set
                /\ calls' = [calls EXCEPT ![c].pc = "matrix"]
           ELSE /\ conf' = conf
                /\ calls' = [calls EXCEPT ![c].pc = "matrix", ![c].own = set]
    /\ UNCHANGED <<notSharedVars, dbg>>

\* lines 186-196: the module global is rebound to this call's snapshot
CallSnapshot(c) ==
    /\ calls[c].pc = "matrix"
    /\ dbg' = [owner |-> c, dropPenalty |-> CfgOf(c).drop_penalty,
               horizonSec |-> calls[c].horizon]
    /\ calls' = [calls EXCEPT ![c].pc = "model"]
    /\ UNCHANGED <<notSharedVars, conf>>

\* lines 220-222: AddDisjunction reads cfg.drop_penalty
CallDisjunctions(c) ==
    /\ calls[c].pc = "model"
    /\ calls' = [calls EXCEPT ![c].pc = "solved",
                              ![c].used_penalty = CfgOf(c).drop_penalty]
    /\ UNCHANGED <<notSharedVars, dbg, conf>>

\* lines 45-47: after its run the caller reads inspect_last_run()
CallInspect(c) ==
    /\ calls[c].pc = "solved"
    /\ calls' = [calls EXCEPT ![c].pc = "done", ![c].saw = dbg.owner]
    /\ UNCHANGED <<notSharedVars, dbg, conf>>

InitShared ==
    /\ ReqIdle /\ StubIdle /\ OrtIdle /\ PolyIdle /\ CacheIdle /\ DropIdle /\ MainIdle
    /\ ConcIdle /\ ValIdle /\ SharedInit

SharedNext ==
    \E c \in 1..MaxCalls :
        \/ CallDefaultPenalty(c)
        \/ CallSnapshot(c)
        \/ CallDisjunctions(c)
        \/ CallInspect(c)

SpecShared == InitShared /\ [][SharedNext]_vars

\* C39: two solve requests running at the same time share no mutable state
\* but the cache: while the request that wrote the debug snapshot is still
\* running no other request overwrites the snapshot, and the snapshot a
\* request reads after its run is its own.
RequestsShareNoState ==
    [][/\ (dbg.owner # 0 /\ calls[dbg.owner].pc # "done") => dbg'.owner = dbg.owner
       /\ \A c \in 1..MaxCalls :
             (calls[c].pc = "solved" /\ calls'[c].pc = "done") => calls'[c].saw = c]_vars

\* C40: a call made with a SolverConfig whose drop_penalty the caller left
\* unset, the same object passed to several calls included, uses the penalty
\* max(3000, 4 * horizon) of its own horizon.
PenaltyFromOwnHorizon ==
    \A c \in 1..MaxCalls :
        (calls[c].left_unset /\ calls[c].pc \in {"solved", "done"})
            => calls[c].used_penalty = Max(MinDropPenalty, 4 * calls[c].horizon)

====
